---- MODULE Spec2Model ----
(***************************************************************************)
(* A model of the code-property-graph generator: the in-memory graph store *)
(* (CPG.AddNode / CPG.AddEdge), the call-graph builder, the metrics        *)
(* passes, the control-dependence extractor and the SQLite flush.          *)
(***************************************************************************)
EXTENDS Integers, Sequences, FiniteSets, Bags, TLC

VARIABLES
    cpg,      \* the CPG struct: Nodes, Edges, nodeSeen, edgeSeen, Sources, Metrics
    log,      \* the AddNode / AddEdge calls issued so far, in call order
    pc,       \* the phase of run() / WriteDB the pipeline is in
    vta,      \* the VTA call-graph edges handed to GraphVisitEdges (the input)
    pending,  \* the VTA edges the visitor callback has not been called on yet
    stubs,    \* BuildCallGraph's local map of created stub ids
    fn,       \* the SSA function ExtractCDG is looking at: its blocks' Succs
    db,       \* the SQLite database: the nodes, edges and metrics tables
    input,    \* the declarations a later pass reads from the type checker or SSA
    defLookup,   \* DefLookup: types.Object -> node id
    posLookup,   \* PosLookup: (file, line, col) -> node id
    funcLookup   \* FuncLookup: (file, line, col) -> function node id

vars == <<cpg, log, pc, vta, pending, stubs, fn, input, db, defLookup, posLookup, funcLookup>>

-----------------------------------------------------------------------------
(* Bounds of the model.                                                    *)

MaxCalls == 3

-----------------------------------------------------------------------------
(* Generic helpers.                                                        *)

Range(s) == {s[i] : i \in 1..Len(s)}

\* A property map (map[string]any) is a set of <<key, value>> pairs.
NoProps == {}

HasProp(props, k) == \E kv \in props : kv[1] = k

PropOf(props, k) == (CHOOSE kv \in props : kv[1] = k)[2]

\* m[k] = v on a property map: the key's old pair is replaced.
SetProp(props, k, v) == {kv \in props : kv[1] # k} \cup {<<k, v>>}

-----------------------------------------------------------------------------
(* The graph store (CPG).                                                  *)

\* edgeKey{e.Source, e.Target, e.Kind}
EdgeKeyOf(e) == <<e.Source, e.Target, e.Kind>>

\* NewCPG()
NewCPG ==
    [Nodes |-> <<>>, Edges |-> <<>>, nodeSeen |-> {}, edgeSeen |-> {},
     Sources |-> <<>>, Metrics |-> <<>>]

\* A Go map as a function: the keys are its DOMAIN.  <<>> is the empty map.
MapPut(m, k, v) == [x \in (DOMAIN m) \cup {k} |-> IF x = k THEN v ELSE m[x]]

\* AddNode keyed on nothing: every call appends (the dedup check lost).
AddNodeNoDedup(g, n) ==
    [g EXCEPT !.nodeSeen = @ \cup {n.ID}, !.Nodes = Append(@, n)]

\* CPG.AddNode: append unless the id was seen (first wins).
AddNode(g, n) ==
    IF n.ID \in g.nodeSeen
    THEN g
    ELSE [g EXCEPT !.nodeSeen = @ \cup {n.ID}, !.Nodes = Append(@, n)]

\* AddEdge as last-wins: a duplicate key replaces the stored edge.
AddEdgeLastWins(g, e) ==
    IF EdgeKeyOf(e) \in g.edgeSeen
    THEN [g EXCEPT !.Edges =
            [i \in 1..Len(@) |-> IF EdgeKeyOf(@[i]) = EdgeKeyOf(e) THEN e ELSE @[i]]]
    ELSE [g EXCEPT !.edgeSeen = @ \cup {EdgeKeyOf(e)}, !.Edges = Append(@, e)]

\* CPG.AddEdge: append unless (source, target, kind) was seen (first wins).
AddEdge(g, e) ==
    IF EdgeKeyOf(e) \in g.edgeSeen
    THEN g
    ELSE [g EXCEPT !.edgeSeen = @ \cup {EdgeKeyOf(e)}, !.Edges = Append(@, e)]

\* Node{...} and Edge{...} literals: the fields a literal leaves out are
\* Go's zero value.  A nil property map and an empty one are both NoProps.
Node(id, kind, name, line, col, props) ==
    [ID |-> id, Kind |-> kind, Name |-> name, File |-> "", Line |-> line, Col |-> col,
     Package |-> "", ParentFunction |-> "", Properties |-> props]

Edge(s, t, k, props) == [Source |-> s, Target |-> t, Kind |-> k, Properties |-> props]

\* &Metrics{...}: the fields a literal leaves out are Go's zero value.
MetricsRec(id, cc, loc, np, fanIn, fanOut) ==
    [FunctionID |-> id, CyclomaticComplexity |-> cc, LOC |-> loc, NumParams |-> np,
     FanIn |-> fanIn, FanOut |-> fanOut]

NodeSet(g) == Range(g.Nodes)
EdgeSet(g) == Range(g.Edges)
NodeIDs(g) == {n.ID : n \in NodeSet(g)}

-----------------------------------------------------------------------------
(* Specification SpecStore: producers call the store in any order.         *)

StoreIDs == {"n1", "n2"}
StoreNodeInputs ==
    {Node(id, kind, "x", 1, 1, NoProps) : id \in StoreIDs, kind \in {"function", "call"}}
StoreEdgeInputs ==
    {Edge(s, t, k, p) : s \in StoreIDs, t \in StoreIDs, k \in {"call", "dfg"},
                        p \in {NoProps, {<<"dynamic", TRUE>>}}}
StoreFiles == {"a.go"}
StoreContents == {"c1", "c2"}

Idle ==
    /\ vta = {} /\ pending = {} /\ stubs = {} /\ fn = <<>> /\ db = <<>>
    /\ input = <<>> /\ defLookup = <<>>
    /\ posLookup = <<>> /\ funcLookup = <<>>

InitStore ==
    /\ cpg = NewCPG
    /\ log = <<>>
    /\ pc = "store"
    /\ Idle

\* A producer calls cpg.AddNode(n).
DoAddNode(n) ==
    /\ Len(log) < MaxCalls
    /\ cpg' = AddNode(cpg, n)
    /\ log' = Append(log, [op |-> "AddNode", arg |-> n])
    /\ UNCHANGED <<pc, vta, pending, stubs, fn, input, defLookup, db, posLookup, funcLookup>>

\* A producer calls cpg.AddEdge(e).
DoAddEdge(e) ==
    /\ Len(log) < MaxCalls
    /\ cpg' = AddEdge(cpg, e)
    /\ log' = Append(log, [op |-> "AddEdge", arg |-> e])
    /\ UNCHANGED <<pc, vta, pending, stubs, fn, input, defLookup, db, posLookup, funcLookup>>

\* WalkAST: if _, ok := cpg.Sources[relFile]; !ok { cpg.Sources[relFile] = content }
DoSetSource(f, c) ==
    /\ Len(log) < MaxCalls
    /\ f \notin DOMAIN cpg.Sources
    /\ cpg' = [cpg EXCEPT !.Sources = MapPut(@, f, c)]
    /\ log' = Append(log, [op |-> "SetSource", arg |-> f])
    /\ UNCHANGED <<pc, vta, pending, stubs, fn, input, defLookup, db, posLookup, funcLookup>>

\* ComputeMetrics: cpg.Metrics[funcID] = &Metrics{...}
DoSetMetric(id, cc) ==
    /\ Len(log) < MaxCalls
    /\ cpg' = [cpg EXCEPT !.Metrics = MapPut(@, id, MetricsRec(id, cc, 1, 0, 0, 0))]
    /\ log' = Append(log, [op |-> "SetMetric", arg |-> id])
    /\ UNCHANGED <<pc, vta, pending, stubs, fn, input, defLookup, db, posLookup, funcLookup>>

NextStore ==
    \/ \E n \in StoreNodeInputs : DoAddNode(n)
    \/ \E e \in StoreEdgeInputs : DoAddEdge(e)
    \/ \E f \in StoreFiles, c \in StoreContents : DoSetSource(f, c)
    \/ \E id \in StoreIDs, cc \in 1..2 : DoSetMetric(id, cc)

SpecStore == InitStore /\ [][NextStore]_vars

\* The arguments of the calls of one operation, in call order.
RECURSIVE ArgsOf(_, _)
ArgsOf(l, op) ==
    IF l = <<>> THEN <<>>
    ELSE LET rest == ArgsOf(SubSeq(l, 1, Len(l) - 1), op)
             last == l[Len(l)]
         IN IF last.op = op THEN Append(rest, last.arg) ELSE rest

\* The elements of s whose key no earlier element of s has.
FirstWins(s, Key(_)) ==
    LET keep == {i \in 1..Len(s) : \A j \in 1..(i - 1) : Key(s[j]) # Key(s[i])}
        RECURSIVE Pick(_)
        Pick(i) == IF i > Len(s) THEN <<>>
                   ELSE IF i \in keep THEN <<s[i]>> \o Pick(i + 1) ELSE Pick(i + 1)
    IN Pick(1)

NodeKeyOf(n) == n.ID

\* C1: after any sequence of AddEdge calls the store holds exactly one edge
\* per distinct (source, target, kind) that was passed, in first-call order,
\* each with the properties of the earliest call with that key; so a later
\* call with a key already passed leaves the stored edges as they were.
C1_AddEdgeFirstWins ==
    pc = "store" =>
        /\ cpg.Edges = FirstWins(ArgsOf(log, "AddEdge"), EdgeKeyOf)
        /\ \A i, j \in 1..Len(cpg.Edges) :
              EdgeKeyOf(cpg.Edges[i]) = EdgeKeyOf(cpg.Edges[j]) => i = j
        /\ cpg.edgeSeen = {EdgeKeyOf(e) : e \in EdgeSet(cpg)}

\* Two AddEdge calls with one key and different properties were made.
C1_Witness ==
    /\ pc = "store"
    /\ \E i, j \in 1..Len(log) :
          /\ i < j
          /\ log[i].op = "AddEdge" /\ log[j].op = "AddEdge"
          /\ EdgeKeyOf(log[i].arg) = EdgeKeyOf(log[j].arg)
          /\ log[i].arg.Properties # log[j].arg.Properties
          /\ \A k \in 1..(i - 1) : log[k].op # "AddEdge"
          /\ log[i].arg \in EdgeSet(cpg)

\* The step is a call AddNode(n) with n.ID already in the store.
DupAddNodeStep ==
    /\ log' # log
    /\ log'[Len(log')].op = "AddNode"
    /\ log'[Len(log')].arg.ID \in NodeIDs(cpg)

\* C2: an AddNode call with an id already in the store leaves Nodes, Edges,
\* Sources and Metrics unchanged, and after any sequence of calls each id
\* appears exactly once in Nodes, with the fields of the earliest call.
C2_AddNodeFirstWins ==
    /\ [](pc = "store" =>
            /\ cpg.Nodes = FirstWins(ArgsOf(log, "AddNode"), NodeKeyOf)
            /\ \A i, j \in 1..Len(cpg.Nodes) : cpg.Nodes[i].ID = cpg.Nodes[j].ID => i = j)
    /\ [][DupAddNodeStep =>
            /\ cpg'.Nodes = cpg.Nodes /\ cpg'.Edges = cpg.Edges
            /\ cpg'.Sources = cpg.Sources /\ cpg'.Metrics = cpg.Metrics]_vars

\* AddNode was called twice with one id and different fields; the store
\* holds the first call's node.
C2_Witness ==
    /\ pc = "store"
    /\ \E i, j \in 1..Len(log) :
          /\ i < j
          /\ log[i].op = "AddNode" /\ log[j].op = "AddNode"
          /\ log[i].arg.ID = log[j].arg.ID
          /\ log[i].arg # log[j].arg
          /\ log[i].arg \in NodeSet(cpg)

-----------------------------------------------------------------------------
(* Strings, ids and module paths.                                          *)

\* strings.HasPrefix
HasPrefix(s, p) == Len(s) >= Len(p) /\ SubSeq(s, 1, Len(p)) = p

\* fmt's %d
ToStr(n) == ToString(n)

\* strings.LastIndex(path, "/"), 1-based; 0 when there is none.
LastSlash(path) ==
    LET at == {i \in 1..Len(path) : SubSeq(path, i, i) = "/"}
    IN IF at = {} THEN 0 ELSE CHOOSE i \in at : \A j \in at : j <= i

\* BaseName: the filename without directory.
BaseName(path) ==
    IF LastSlash(path) = 0 THEN path ELSE SubSeq(path, LastSlash(path) + 1, Len(path))

\* FuncID: "%s::%s.%s@%s:%d:%d" with a receiver, "%s::%s@%s:%d:%d" without.
FuncID(pkg, recv, name, file, line, col) ==
    IF recv # ""
    THEN pkg \o "::" \o recv \o "." \o name \o "@" \o file \o ":" \o ToStr(line) \o ":" \o ToStr(col)
    ELSE pkg \o "::" \o name \o "@" \o file \o ":" \o ToStr(line) \o ":" \o ToStr(col)

\* StmtID: "%s::@%s:%d:%d:%s"
StmtID(pkg, file, line, col, kind) ==
    pkg \o "::@" \o file \o ":" \o ToStr(line) \o ":" \o ToStr(col) \o ":" \o kind

\* FileID: "file::%s"
FileID(relFile) == "file::" \o relFile

\* BlockID: "%s::bb%d"
BlockID(funcID, blockIndex) == funcID \o "::bb" \o ToStr(blockIndex)

\* The module set main() builds: the primary module, no extras.
Modules == << [ModPath |-> "ex.com/m", Dir |-> "/w/m", Prefix |-> ""] >>

\* ModuleSet.IsKnownPkg
IsKnownPkg(pkgPath) ==
    \E k \in 1..Len(Modules) :
        \/ pkgPath = Modules[k].ModPath
        \/ HasPrefix(pkgPath, Modules[k].ModPath \o "/")

\* ModuleSet.RelPkg: the loop over the modules, carrying <<bestResult,
\* bestModLen, matched>>.
RECURSIVE RelPkgLoop(_, _, _, _)
RelPkgLoop(ms, fullPath, k, best) ==
    IF k > Len(ms) THEN best
    ELSE LET m == ms[k]
             ml == Len(m.ModPath)
         IN IF fullPath = m.ModPath /\ ml > best[2]
            THEN RelPkgLoop(ms, fullPath, k + 1,
                     <<IF m.Prefix = "" THEN "main" ELSE m.Prefix, ml, TRUE>>)
            ELSE IF HasPrefix(fullPath, m.ModPath \o "/") /\ ml > best[2]
            THEN LET rel == SubSeq(fullPath, ml + 2, Len(fullPath))
                 IN RelPkgLoop(ms, fullPath, k + 1,
                     <<IF m.Prefix = "" THEN rel ELSE m.Prefix \o "/" \o rel, ml, TRUE>>)
            ELSE RelPkgLoop(ms, fullPath, k + 1, best)

\* ModuleSet.RelPkg on the module set ms.
RelPkgOf(ms, fullPath) ==
    LET best == RelPkgLoop(ms, fullPath, 1, <<"", -1, FALSE>>)
    IN IF best[3] THEN best[1] ELSE fullPath

\* modSet.RelPkg
RelPkg(fullPath) == RelPkgOf(Modules, fullPath)

\* PkgID: "pkg::%s" of the relative package path.
PkgID(pkgPath) == "pkg::" \o RelPkg(pkgPath)

\* filepath.Rel(dir, absPath) on clean absolute paths: "." for the directory
\* itself, the remainder below it, a path that starts with ".." otherwise.
FilepathRel(dir, absPath) ==
    IF absPath = dir THEN "."
    ELSE IF HasPrefix(absPath, dir \o "/") THEN SubSeq(absPath, Len(dir) + 2, Len(absPath))
    ELSE ".." \o absPath

\* ModuleSet.RelFile: the loop carries <<bestRel, bestPrefix, bestDirLen>>.
RECURSIVE RelFileLoop(_, _, _, _)
RelFileLoop(ms, absPath, k, best) ==
    IF k > Len(ms) THEN best
    ELSE LET m == ms[k]
             rel == FilepathRel(m.Dir, absPath)
         IN IF HasPrefix(rel, "..") THEN RelFileLoop(ms, absPath, k + 1, best)
            ELSE IF Len(m.Dir) > best[3]
            THEN RelFileLoop(ms, absPath, k + 1, <<rel, m.Prefix, Len(m.Dir)>>)
            ELSE RelFileLoop(ms, absPath, k + 1, best)

\* ModuleSet.RelFile on the module set ms.
RelFileOf(ms, absPath) ==
    LET best == RelFileLoop(ms, absPath, 1, <<"", "", -1>>)
    IN IF best[3] < 0 THEN ""
       ELSE IF best[2] = "" THEN best[1]
       ELSE best[2] \o "/" \o best[1]

\* modSet.RelFile
RelFile(absPath) == RelFileOf(Modules, absPath)

\* HasSuffix and shouldSkipFile (flagSkipTests and flagSkipGenerated set).
HasSuffix(s, p) == Len(s) >= Len(p) /\ SubSeq(s, Len(s) - Len(p) + 1, Len(s)) = p

shouldSkipFile(path) ==
    \/ HasSuffix(BaseName(path), "_test.go")
    \/ HasSuffix(BaseName(path), ".pb.go")

-----------------------------------------------------------------------------
(* PosLookup and FuncLookup: maps keyed by (file, line, col).              *)

\* fmt.Sprintf("%s:%d:%d", file, line, col)
posKey(file, line, col) == file \o ":" \o ToStr(line) \o ":" \o ToStr(col)

\* PosLookup.Set: the first id registered at a position stays.
PosLookupSet(m, file, line, col, id) ==
    IF posKey(file, line, col) \in DOMAIN m THEN m ELSE MapPut(m, posKey(file, line, col), id)

\* PosLookup.Get / FuncLookup.Get: "" when the position has no entry.
LookupGet(m, file, line, col) ==
    IF posKey(file, line, col) \in DOMAIN m THEN m[posKey(file, line, col)] ELSE ""

\* FuncLookup.Set: plain map assignment.
FuncLookupSet(m, file, line, col, id) == MapPut(m, posKey(file, line, col), id)

-----------------------------------------------------------------------------
(* The syntax tree (go/ast) of the analysed file.  A position is the       *)
(* <<line, column>> the file set resolves it to; NoPos is the invalid one. *)
(* Type-checker facts ride on the nodes: an identifier carries the object  *)
(* it uses (obj, "" for none) and that object's class (objKind).           *)

NoPos == <<0, 0>>
NoNode == [type |-> "nil"]

Ident(p, name, obj, objKind) ==
    [type |-> "Ident", pos |-> p, name |-> name, obj |-> obj, objKind |-> objKind]

\* x.Sel; selKind is the types.Selection kind ("" when there is none).
SelectorExpr(x, sel, selKind) ==
    [type |-> "SelectorExpr", X |-> x, Sel |-> sel, selKind |-> selKind]

\* fun(args...); recvIface: fun is a selector on a value of interface type.
CallExpr(fun, lparen, args, recvIface) ==
    [type |-> "CallExpr", Fun |-> fun, Lparen |-> lparen, Args |-> args,
     recvIface |-> recvIface]

ExprStmt(x) == [type |-> "ExprStmt", X |-> x]

ReturnStmt(p, results) == [type |-> "ReturnStmt", Return |-> p, Results |-> results]

IfStmt(p, cond, body) == [type |-> "IfStmt", If |-> p, Cond |-> cond, Body |-> body]

BlockStmt(lbrace, list) == [type |-> "BlockStmt", Lbrace |-> lbrace, List |-> list]

DeferStmt(p, call) == [type |-> "DeferStmt", Defer |-> p, Call |-> call]

\* One field of a parameter or result list: its names (each with the object
\* it defines) and the position of the field (of its type when unnamed).
Field(names, p, typeName) == [Names |-> names, pos |-> p, typeName |-> typeName]

FuncLit(p, params, results, body, endLine) ==
    [type |-> "FuncLit", pos |-> p, Params |-> params, Results |-> results,
     Body |-> body, endLine |-> endLine]

\* recv is exprTypeName of the receiver's type, "" for a plain function.
FuncDecl(p, recv, name, tparams, params, results, body, endLine) ==
    [type |-> "FuncDecl", pos |-> p, recv |-> recv, Name |-> name, TypeParams |-> tparams,
     Params |-> params, Results |-> results, Body |-> body, endLine |-> endLine]

File(name, decls) == [type |-> "File", Name |-> name, Decls |-> decls]

\* The children ast.Walk descends into, in its order.
Children(n) ==
    CASE n.type = "File" -> <<n.Name>> \o n.Decls
      [] n.type = "CallExpr" -> <<n.Fun>> \o n.Args
      [] n.type = "SelectorExpr" -> <<n.X, n.Sel>>
      [] n.type = "ExprStmt" -> <<n.X>>
      [] n.type = "ReturnStmt" -> n.Results
      [] n.type = "IfStmt" -> <<n.Cond, n.Body>>
      [] n.type = "BlockStmt" -> n.List
      [] n.type = "DeferStmt" -> <<n.Call>>
      [] n.type = "FuncLit" -> IF n.Body = NoNode THEN <<>> ELSE <<n.Body>>
      [] n.type = "FuncDecl" -> IF n.Body = NoNode THEN <<>> ELSE <<n.Body>>
      [] OTHER -> <<>>

-----------------------------------------------------------------------------
(* The AST visitor.  The visitor state v is the astVisitor struct with the *)
(* store and the lookups it writes to.  TypeInfo, EndLine and the code     *)
(* snippets of nodes are left out.                                         *)

currentParent(v) == v.parentStack[Len(v.parentStack)]

pushParent(v, id) == [v EXCEPT !.parentStack = Append(@, id)]

\* DefLookup.Set (nil objects are not recorded) and DefLookup.Get.
DefLookupSet(m, obj, id) == IF obj = "" THEN m ELSE MapPut(m, obj, id)

DefLookupGet(m, obj) == IF obj # "" /\ obj \in DOMAIN m THEN m[obj] ELSE ""

Max0(d) == IF d < 0 THEN 0 ELSE d

\* astVisitor.addNodeAndEdge
addNodeAndEdge(v, n) ==
    LET depth == Max0(Len(v.parentStack) - 2)
        n1 == [n EXCEPT !.Package = v.relPkg, !.File = v.relFile,
                        !.ParentFunction = v.curFunc,
                        !.Properties =
                            IF v.curFunc # "" /\ n.Kind \notin {"function", "parameter", "result"}
                            THEN SetProp(@, "nesting_depth", depth) ELSE @]
        g1 == AddNode(v.cpg, n1)
        g2 == AddEdge(g1, Edge(currentParent(v), n1.ID, "ast", NoProps))
    IN [v EXCEPT !.cpg = g2,
                 !.posLookup = IF n1.Line > 0
                               THEN PosLookupSet(@, n1.File, n1.Line, n1.Col, n1.ID)
                               ELSE @]

\* astVisitor.exprNodeID: the id the expression's node is predicted to have.
exprNodeID(v, e) ==
    LET base == BaseName(v.relFile)
    IN CASE e.type = "Ident" -> StmtID(v.relPkg, base, e.pos[1], e.pos[2], "identifier")
         [] e.type = "CallExpr" -> StmtID(v.relPkg, base, e.Lparen[1], e.Lparen[2], "call")
         [] e.type = "SelectorExpr" ->
                StmtID(v.relPkg, base, e.Sel.pos[1], e.Sel.pos[2], "selector")
         [] e.type = "FuncLit" -> StmtID(v.relPkg, base, e.pos[1], e.pos[2], "func_lit")
         [] OTHER -> ""

\* astVisitor.stmtNodeID
stmtNodeID(v, s) ==
    LET base == BaseName(v.relFile)
    IN CASE s.type = "IfStmt" -> StmtID(v.relPkg, base, s.If[1], s.If[2], "if")
         [] s.type = "ReturnStmt" -> StmtID(v.relPkg, base, s.Return[1], s.Return[2], "return")
         [] s.type = "ExprStmt" -> exprNodeID(v, s.X)
         [] s.type = "BlockStmt" -> StmtID(v.relPkg, base, s.Lbrace[1], s.Lbrace[2], "block")
         [] s.type = "DeferStmt" -> StmtID(v.relPkg, base, s.Defer[1], s.Defer[2], "defer")
         [] OTHER -> ""

\* resolveCalleeName
resolveCalleeName(call) ==
    CASE call.Fun.type = "Ident" -> call.Fun.name
      [] call.Fun.type = "SelectorExpr" ->
             IF call.Fun.X.type = "Ident"
             THEN call.Fun.X.name \o "." \o call.Fun.Sel.name
             ELSE call.Fun.Sel.name
      [] OTHER -> "?"

\* astVisitor.visitIdent
visitIdent(v, n) ==
    IF n.obj = "" \/ n.objKind \notin {"var", "func", "const", "type"} THEN v
    ELSE LET id == StmtID(v.relPkg, BaseName(v.relFile), n.pos[1], n.pos[2], "identifier")
             v1 == addNodeAndEdge(v, Node(id, "identifier", n.name, n.pos[1], n.pos[2], NoProps))
             declID == DefLookupGet(v1.defLookup, n.obj)
         IN IF declID # ""
            THEN [v1 EXCEPT !.cpg = AddEdge(@, Edge(id, declID, "ref", NoProps))]
            ELSE v1

\* astVisitor.visitSelectorExpr; the id is returned by SelectorID.
SelectorID(v, n) ==
    StmtID(v.relPkg, BaseName(v.relFile), n.Sel.pos[1], n.Sel.pos[2], "selector")

visitSelectorExpr(v, n) ==
    LET id == SelectorID(v, n)
        name == IF n.X.type = "Ident" THEN n.X.name \o "." \o n.Sel.name ELSE n.Sel.name
        props == IF n.selKind # "" THEN {<<"selection_kind", n.selKind>>} ELSE NoProps
        v1 == addNodeAndEdge(v, Node(id, "selector", name, n.Sel.pos[1], n.Sel.pos[2], props))
        declID == DefLookupGet(v1.defLookup, n.Sel.obj)
    IN IF declID # ""
       THEN [v1 EXCEPT !.cpg = AddEdge(@, Edge(id, declID, "ref", NoProps))]
       ELSE v1

\* The argument edges of visitCallExpr: call -> each argument's node, indexed.
RECURSIVE argumentEdges(_, _, _, _)
argumentEdges(v, id, args, i) ==
    IF i >= Len(args) THEN v
    ELSE LET argID == exprNodeID(v, args[i + 1])
             v1 == IF argID # ""
                   THEN [v EXCEPT !.cpg =
                            AddEdge(@, Edge(id, argID, "argument", {<<"index", i>>}))]
                   ELSE v
         IN argumentEdges(v1, id, args, i + 1)

\* astVisitor.visitCallExpr; the id is returned by CallID.
CallID(v, n) == StmtID(v.relPkg, BaseName(v.relFile), n.Lparen[1], n.Lparen[2], "call")

dispatchType(n) ==
    CASE n.Fun.type = "SelectorExpr" -> IF n.recvIface THEN "dynamic" ELSE "static"
      [] n.Fun.type = "Ident" -> IF n.Fun.obj # "" /\ n.Fun.objKind = "var"
                                 THEN "dynamic" ELSE "static"
      [] n.Fun.type = "FuncLit" -> "static"
      [] OTHER -> "dynamic"

visitCallExpr(v, n) ==
    LET id == CallID(v, n)
        props == {<<"dispatch_type", dispatchType(n)>>}
        v1 == addNodeAndEdge(v, Node(id, "call", resolveCalleeName(n),
                                     n.Lparen[1], n.Lparen[2], props))
        recvID == IF n.Fun.type = "SelectorExpr" THEN exprNodeID(v1, n.Fun.X) ELSE ""
        v2 == IF recvID # ""
              THEN [v1 EXCEPT !.cpg = AddEdge(@, Edge(id, recvID, "receiver", NoProps))]
              ELSE v1
    IN argumentEdges(v2, id, n.Args, 0)

\* visitStmtWithCode without the balance push for a position of line 0.
visitStmtWithCodeNoBalance(v, p, kind, name) ==
    IF p[1] = 0 THEN v
    ELSE LET id == StmtID(v.relPkg, BaseName(v.relFile), p[1], p[2], kind)
         IN pushParent(addNodeAndEdge(v, Node(id, kind, name, p[1], p[2], NoProps)), id)

\* astVisitor.visitStmtWithCode
visitStmtWithCode(v, p, kind, name) ==
    IF p[1] = 0 THEN pushParent(v, currentParent(v))
    ELSE LET id == StmtID(v.relPkg, BaseName(v.relFile), p[1], p[2], kind)
         IN pushParent(addNodeAndEdge(v, Node(id, kind, name, p[1], p[2], NoProps)), id)

\* The DeferStmt case of Visit: the defer node, and its id appended to
\* deferIDs.
visitDeferStmt(v, n) ==
    LET v1 == visitStmtWithCode(v, n.Defer, "defer", "defer")
    IN IF n.Defer[1] > 0
       THEN [v1 EXCEPT !.deferIDs =
                Append(@, StmtID(v.relPkg, BaseName(v.relFile), n.Defer[1], n.Defer[2], "defer"))]
       ELSE v1

\* The loop of emitDeferOrdering counting exec_order up from the first
\* defer instead of down from the last.
RECURSIVE deferOrderEdgesForward(_, _, _)
deferOrderEdgesForward(g, ids, i) ==
    IF i <= 0 THEN g
    ELSE deferOrderEdgesForward(
             AddEdge(g, Edge(ids[i + 1], ids[i], "defer_order", {<<"exec_order", i>>})),
             ids, i - 1)

\* The loop of emitDeferOrdering: for i := len(ids)-1; i > 0; i-- (ids[i]
\* of the code is ids[i + 1] here).
RECURSIVE deferOrderEdges(_, _, _)
deferOrderEdges(g, ids, i) ==
    IF i <= 0 THEN g
    ELSE deferOrderEdges(
             AddEdge(g, Edge(ids[i + 1], ids[i], "defer_order",
                             {<<"exec_order", Len(ids) - i>>})),
             ids, i - 1)

\* astVisitor.emitDeferOrdering
emitDeferOrdering(v) ==
    IF Len(v.deferIDs) < 2 THEN v
    ELSE [v EXCEPT !.cpg = deferOrderEdges(@, v.deferIDs, Len(v.deferIDs) - 1)]

\* astVisitor.emitConditionEdge
emitConditionEdge(v, kind, stmtPos, cond) ==
    IF cond = NoNode \/ exprNodeID(v, cond) = "" THEN v
    ELSE [v EXCEPT !.cpg =
            AddEdge(@, Edge(StmtID(v.relPkg, BaseName(v.relFile), stmtPos[1], stmtPos[2], kind),
                            exprNodeID(v, cond), "condition", NoProps))]

\* The next_sibling loop of visitBlock, carrying prevID.
RECURSIVE nextSiblingEdges(_, _, _, _)
nextSiblingEdges(v, list, k, prevID) ==
    IF k > Len(list) THEN v
    ELSE LET curID == stmtNodeID(v, list[k])
             v1 == IF curID # "" /\ prevID # ""
                   THEN [v EXCEPT !.cpg = AddEdge(@, Edge(prevID, curID, "next_sibling", NoProps))]
                   ELSE v
         IN nextSiblingEdges(v1, list, k + 1, IF curID # "" THEN curID ELSE prevID)

\* The nearest entry of the parent stack that is a scope node, "" if none.
nearestScope(v) ==
    LET at == {i \in 1..Len(v.parentStack) : v.parentStack[i] \in v.scopeNodes}
    IN IF at = {} THEN "" ELSE v.parentStack[CHOOSE i \in at : \A j \in at : j <= i]

\* astVisitor.visitBlock
visitBlock(v, n) ==
    IF n.Lbrace[1] = 0 THEN pushParent(v, currentParent(v))
    ELSE LET id == StmtID(v.relPkg, BaseName(v.relFile), n.Lbrace[1], n.Lbrace[2], "block")
             v1 == addNodeAndEdge(v, Node(id, "block", "block", n.Lbrace[1], n.Lbrace[2], NoProps))
             v2 == [v1 EXCEPT !.scopeNodes = @ \cup {id}]
             v3 == IF nearestScope(v2) # ""
                   THEN [v2 EXCEPT !.cpg = AddEdge(@, Edge(id, nearestScope(v2), "scope", NoProps))]
                   ELSE v2
             v4 == pushParent(v3, id)
         IN IF Len(n.List) > 1 THEN nextSiblingEdges(v4, n.List, 1, "") ELSE v4

\* One named or unnamed slot of visitFieldList.
RECURSIVE fieldNames(_, _, _, _)
fieldNames(v, names, k, kind) ==
    IF k > Len(names) THEN v
    ELSE LET nm == names[k]
             id == StmtID(v.relPkg, BaseName(v.relFile), nm.pos[1], nm.pos[2], kind)
             v1 == addNodeAndEdge(v, Node(id, kind, nm.name, nm.pos[1], nm.pos[2], NoProps))
             v2 == [v1 EXCEPT !.defLookup = DefLookupSet(@, nm.obj, id)]
         IN fieldNames(v2, names, k + 1, kind)

\* astVisitor.visitFieldList
RECURSIVE visitFieldList(_, _, _, _)
visitFieldList(v, fl, k, kind) ==
    IF k > Len(fl) THEN v
    ELSE LET f == fl[k]
         IN IF Len(f.Names) = 0
            THEN LET id == StmtID(v.relPkg, BaseName(v.relFile), f.pos[1], f.pos[2], kind)
                 IN visitFieldList(
                        addNodeAndEdge(v, Node(id, kind, f.typeName, f.pos[1], f.pos[2], NoProps)),
                        fl, k + 1, kind)
            ELSE visitFieldList(fieldNames(v, f.Names, 1, kind), fl, k + 1, kind)

Upper == {"A", "B", "C", "D", "E", "F", "G", "H", "I", "J", "K", "L", "M",
          "N", "O", "P", "Q", "R", "S", "T", "U", "V", "W", "X", "Y", "Z"}

\* token.IsExported
IsExported(name) == Len(name) > 0 /\ SubSeq(name, 1, 1) \in Upper

\* visitFuncDecl / visitFuncLit keeping the enclosing function as curFunc.
enterFuncKeepCur(v, funcID) ==
    [v EXCEPT !.scopeNodes = @ \cup {funcID},
              !.parentStack = Append(@, funcID)]

\* visitFuncDecl / visitFuncLit: the function becomes a scope node, the
\* parent of its children and the current function.
enterFunc(v, funcID) ==
    [v EXCEPT !.scopeNodes = @ \cup {funcID},
              !.parentStack = Append(@, funcID),
              !.curFunc = funcID]

\* visitFuncDecl / visitFuncLit on the way out: curFunc = prevFunc and the
\* parent stack loses its top.
leaveFunc(v, prevFunc) ==
    [v EXCEPT !.curFunc = prevFunc,
              !.parentStack = SubSeq(@, 1, Len(@) - 1)]

\* Visit(nil): pop unless only the file is left.
visitNil(v) ==
    IF Len(v.parentStack) > 1
    THEN [v EXCEPT !.parentStack = SubSeq(@, 1, Len(@) - 1)]
    ELSE v

\* astVisitor.Visit for the node types it returns the visitor for.
Visit(v, n) ==
    CASE n.type = "CallExpr" -> pushParent(visitCallExpr(v, n), CallID(v, n))
      [] n.type = "IfStmt" ->
             emitConditionEdge(visitStmtWithCode(v, n.If, "if", "if"), "if", n.If, n.Cond)
      [] n.type = "ReturnStmt" -> visitStmtWithCode(v, n.Return, "return", "return")
      [] n.type = "BlockStmt" -> visitBlock(v, n)
      [] n.type = "DeferStmt" -> visitDeferStmt(v, n)
      [] n.type = "SelectorExpr" -> pushParent(visitSelectorExpr(v, n), SelectorID(v, n))
      [] OTHER -> pushParent(v, currentParent(v))

RECURSIVE Walk(_, _)
RECURSIVE WalkList(_, _, _)
RECURSIVE visitFuncDecl(_, _)
RECURSIVE visitFuncLit(_, _)

\* The record of a Visit call in v.visits: the node, what the call
\* returned ("visitor", "nil", or "pop" for Visit(nil)), the parent stack
\* the call found and the one it left; for Visit(nil), also the stack the
\* Visit of the node had found (entry) and left (pushed).
visited(r, n, ret, before, entry, pushed) ==
    [r EXCEPT !.visits = Append(@, [node |-> n.type, ret |-> ret, before |-> before,
                                    after |-> r.parentStack, entry |-> entry,
                                    pushed |-> pushed])]

\* ast.Walk(v, n): Visit, then the children, then Visit(nil); nothing below
\* a node whose Visit returns nil.  (v is a record, so the first arm is
\* never taken: it makes TLC evaluate v before the walk descends.)
Walk(v, n) ==
    CASE DOMAIN v = {} -> v
      [] n.type = "FuncDecl" ->
             CHOOSE x \in {visited(r, n, "nil", v.parentStack, v.parentStack, r.parentStack) :
                              r \in {visitFuncDecl(v, n)}} : TRUE
      [] n.type = "FuncLit" ->
             CHOOSE x \in {visited(r, n, "nil", v.parentStack, v.parentStack, r.parentStack) :
                              r \in {visitFuncLit(v, n)}} : TRUE
      [] n.type = "Ident" ->
             CHOOSE x \in {visited(r, n, "nil", v.parentStack, v.parentStack, r.parentStack) :
                              r \in {visitIdent(v, n)}} : TRUE
      [] OTHER ->
             CHOOSE x \in
                 {CHOOSE y \in {visited(visitNil(v2), n, "pop", v2.parentStack,
                                        v.parentStack, v1.parentStack) :
                                    v2 \in {WalkList(visited(v1, n, "visitor", v.parentStack,
                                                             v.parentStack, v1.parentStack),
                                                     Children(n), 1)}} : TRUE :
                     v1 \in {Visit(v, n)}} : TRUE

WalkList(v, list, k) ==
    IF k > Len(list) THEN v ELSE WalkList(Walk(v, list[k]), list, k + 1)

\* astVisitor.visitFuncDecl
visitFuncDecl(v, n) ==
    LET line == n.pos[1]
        col == n.pos[2]
        name == n.Name.name
        funcID == FuncID(v.relPkg, n.recv, name, BaseName(v.relFile), line, col)
        v1 == [v EXCEPT !.defLookup = DefLookupSet(@, n.Name.obj, funcID)]
        displayName == IF n.recv # "" THEN n.recv \o "." \o name ELSE name
        props0 == {<<"full_name", v.relPkg \o "." \o displayName>>,
                   <<"exported", IsExported(name)>>}
        props1 == IF n.recv # "" THEN SetProp(props0, "receiver", n.recv) ELSE props0
        props == IF Len(n.TypeParams) > 0 THEN SetProp(props1, "generic", TRUE) ELSE props1
        v2 == addNodeAndEdge(v1, Node(funcID, "function", displayName, line, col, props))
        v3 == [v2 EXCEPT
                 !.funcLookup = FuncLookupSet(FuncLookupSet(@, v.relFile, line, col, funcID),
                                              v.relFile, n.Name.pos[1], n.Name.pos[2], funcID),
                 !.posLookup = PosLookupSet(@, v.relFile, n.Name.pos[1], n.Name.pos[2], funcID)]
        v4 == IF name = "init" /\ n.recv = ""
              THEN [v3 EXCEPT !.initIDs = Append(@, funcID)] ELSE v3
        v5 == visitFieldList(enterFunc(v4, funcID), n.TypeParams, 1, "type_param")
        v6 == visitFieldList(v5, n.Params, 1, "parameter")
        v7 == visitFieldList(v6, n.Results, 1, "result")
        v8 == IF n.Body # NoNode THEN Walk([v7 EXCEPT !.deferIDs = <<>>], n.Body)
              ELSE [v7 EXCEPT !.deferIDs = <<>>]
        v9 == CHOOSE r \in {[emitDeferOrdering(x) EXCEPT !.deferIDs = v.deferIDs] : x \in {v8}} : TRUE
    IN leaveFunc(v9, v.curFunc)

\* astVisitor.visitFuncLit
visitFuncLit(v, n) ==
    LET line == n.pos[1]
        col == n.pos[2]
        funcID == StmtID(v.relPkg, BaseName(v.relFile), line, col, "func_lit")
        v1 == addNodeAndEdge(v, Node(funcID, "function", "func literal", line, col, NoProps))
        v2 == [v1 EXCEPT !.funcLookup = FuncLookupSet(@, v.relFile, line, col, funcID)]
        v3 == enterFunc(v2, funcID)
        v4 == visitFieldList(v3, n.Params, 1, "parameter")
        v5 == visitFieldList(v4, n.Results, 1, "result")
        v6 == IF n.Body # NoNode THEN Walk([v5 EXCEPT !.deferIDs = <<>>], n.Body)
              ELSE [v5 EXCEPT !.deferIDs = <<>>]
        v7 == CHOOSE r \in {[emitDeferOrdering(x) EXCEPT !.deferIDs = v.deferIDs] : x \in {v6}} : TRUE
    IN leaveFunc(v7, v.curFunc)

\* The init_order chain of WalkAST.
RECURSIVE initOrderEdges(_, _, _)
initOrderEdges(g, ids, i) ==
    IF i >= Len(ids) THEN g
    ELSE initOrderEdges(AddEdge(g, Edge(ids[i], ids[i + 1], "init_order", {<<"order", i>>})),
                        ids, i + 1)

\* The astVisitor WalkAST builds for a file; visits is the record of the
\* Visit calls of the walk.
\* w is [cpg, posLookup, funcLookup, defLookup, initIDs].
fileVisitor(g, w, pkg, f) ==
    [cpg |-> g, posLookup |-> w.posLookup, funcLookup |-> w.funcLookup,
     defLookup |-> w.defLookup, initIDs |-> w.initIDs,
     relPkg |-> RelPkg(pkg.PkgPath), relFile |-> RelFile(f.absFile),
     fileID |-> FileID(RelFile(f.absFile)),
     parentStack |-> <<FileID(RelFile(f.absFile))>>, curFunc |-> "", scopeNodes |-> {},
     deferIDs |-> <<>>, visits |-> <<>>]

\* WalkAST for one file of a package: [PkgPath, Name, absFile, syntax, readable].
walkFile(w, pkg, f) ==
    LET relPkg == RelPkg(pkg.PkgPath)
        relFile == RelFile(f.absFile)
        fileID == FileID(relFile)
        g1 == AddNode(w.cpg, [Node(fileID, "file", BaseName(relFile), 0, 0, {<<"loc", f.endLine>>})
                                EXCEPT !.File = relFile, !.Package = relPkg])
        g2 == AddEdge(g1, Edge(PkgID(pkg.PkgPath), fileID, "ast", NoProps))
        g3 == IF relFile \notin DOMAIN g2.Sources /\ f.readable
              THEN [g2 EXCEPT !.Sources = MapPut(@, relFile, f.content)] ELSE g2
        v == fileVisitor(g3, w, pkg, f)
    IN IF relFile = "" \/ shouldSkipFile(relFile) THEN w
       ELSE CHOOSE r \in {[cpg |-> v1.cpg, posLookup |-> v1.posLookup,
                            funcLookup |-> v1.funcLookup, defLookup |-> v1.defLookup,
                            initIDs |-> v1.initIDs] : v1 \in {Walk(v, f.syntax)}} : TRUE

RECURSIVE walkFiles(_, _, _)
walkFiles(w, pkg, k) ==
    IF k > Len(pkg.Files) THEN w ELSE walkFiles(walkFile(w, pkg, pkg.Files[k]), pkg, k + 1)

\* The imports edges of WalkAST: package -> each imported known package.
RECURSIVE importEdges(_, _, _)
importEdges(g, pkgID, imports) ==
    IF imports = {} THEN g
    ELSE LET imp == CHOOSE x \in imports : TRUE
             g1 == IF IsKnownPkg(imp)
                   THEN AddEdge(g, Edge(pkgID, PkgID(imp), "imports", NoProps)) ELSE g
         IN importEdges(g1, pkgID, imports \ {imp})

\* WalkAST for one package: the package node, the imports, its files, the
\* init chain.
walkPkg(w, pkg) ==
    LET pkgID == PkgID(pkg.PkgPath)
        g1 == AddNode(w.cpg, [Node(pkgID, "package", pkg.Name, 0, 0, NoProps)
                                EXCEPT !.Package = RelPkg(pkg.PkgPath)])
        g2 == importEdges(g1, pkgID, pkg.Imports)
    IN CHOOSE r \in {[w1 EXCEPT !.cpg = initOrderEdges(@, w1.initIDs, 1)] :
                        w1 \in {walkFiles([w EXCEPT !.cpg = g2, !.initIDs = <<>>], pkg, 1)}} : TRUE

RECURSIVE walkPkgs(_, _, _)
walkPkgs(w, pkgs, k) ==
    IF k > Len(pkgs) THEN w ELSE walkPkgs(walkPkg(w, pkgs[k]), pkgs, k + 1)

-----------------------------------------------------------------------------
(* The analysed program.  Package ex.com/m/p of the primary module has two *)
(* files: p/t.pb.go (generated, skipped) declares the types T and I and    *)
(* the function K; p/a.go is                                               *)
(*                                                                         *)
(*    1  package p                                                         *)
(*    3  func A(t T, v int, c bool) {                                      *)
(*    4      B(v)                                                          *)
(*    5      lib.F(v)                                                      *)
(*    6      t.M(v, v, v)                                                  *)
(*    7      func() { B(v) }()                                             *)
(*    8      if c { K(v) }                                                 *)
(*    9  }                                                                 *)
(*   10  func B(x int) int { return x }                                    *)
(*   11  func (t T) M(x, y, z int) {}                                      *)
(*   12  func G[X I](x X, n int) { func() { x.M(n, n, n) }() }             *)
(*                                                                         *)
(* Package ex.com/m/ext of the same module has the file ext/e.go:          *)
(*                                                                         *)
(*    1  package ext                                                       *)
(*    3  func E() {}                                                       *)

\* A name in a declaration: the identifier and the object it defines.
Name(name, p, obj) == [name |-> name, pos |-> p, obj |-> obj]

UseV(p) == Ident(p, "v", "A.v", "var")
UseN(p) == Ident(p, "n", "G.n", "var")

DeclA ==
    FuncDecl(<<3, 1>>, "", Name("A", <<3, 6>>, "p.A"), <<>>,
        << Field(<<Name("t", <<3, 8>>, "A.t")>>, <<3, 8>>, "T"),
           Field(<<Name("v", <<3, 13>>, "A.v")>>, <<3, 13>>, "int"),
           Field(<<Name("c", <<3, 20>>, "A.c")>>, <<3, 20>>, "bool") >>,
        <<>>,
        BlockStmt(<<3, 28>>,
          << ExprStmt(CallExpr(Ident(<<4, 2>>, "B", "p.B", "func"), <<4, 3>>,
                               <<UseV(<<4, 4>>)>>, FALSE)),
             ExprStmt(CallExpr(SelectorExpr(Ident(<<5, 2>>, "lib", "lib", "pkgname"),
                                            Ident(<<5, 6>>, "F", "lib.F", "func"), ""),
                               <<5, 7>>, <<UseV(<<5, 8>>)>>, FALSE)),
             ExprStmt(CallExpr(SelectorExpr(Ident(<<6, 2>>, "t", "A.t", "var"),
                                            Ident(<<6, 4>>, "M", "T.M", "func"), "method_val"),
                               <<6, 5>>,
                               <<UseV(<<6, 6>>), UseV(<<6, 9>>), UseV(<<6, 12>>)>>, FALSE)),
             ExprStmt(CallExpr(
                 FuncLit(<<7, 2>>, <<>>, <<>>,
                     BlockStmt(<<7, 9>>,
                       << ExprStmt(CallExpr(Ident(<<7, 11>>, "B", "p.B", "func"), <<7, 12>>,
                                            <<UseV(<<7, 13>>)>>, FALSE)) >>), 7),
                 <<7, 17>>, <<>>, FALSE)),
             IfStmt(<<8, 2>>, Ident(<<8, 5>>, "c", "A.c", "var"),
                 BlockStmt(<<8, 7>>,
                   << ExprStmt(CallExpr(Ident(<<8, 9>>, "K", "p.K", "func"), <<8, 10>>,
                                        <<UseV(<<8, 11>>)>>, FALSE)) >>)) >>),
        9)

DeclB ==
    FuncDecl(<<10, 1>>, "", Name("B", <<10, 6>>, "p.B"), <<>>,
        << Field(<<Name("x", <<10, 8>>, "B.x")>>, <<10, 8>>, "int") >>,
        << Field(<<>>, <<10, 15>>, "int") >>,
        BlockStmt(<<10, 19>>,
          << ReturnStmt(<<10, 21>>, <<Ident(<<10, 28>>, "x", "B.x", "var")>>) >>),
        10)

DeclM ==
    FuncDecl(<<11, 1>>, "T", Name("M", <<11, 12>>, "T.M"), <<>>,
        << Field(<<Name("x", <<11, 14>>, "M.x"), Name("y", <<11, 17>>, "M.y"),
                   Name("z", <<11, 20>>, "M.z")>>, <<11, 14>>, "int") >>,
        <<>>, BlockStmt(<<11, 27>>, <<>>), 11)

DeclG ==
    FuncDecl(<<12, 1>>, "", Name("G", <<12, 6>>, "p.G"),
        << Field(<<Name("X", <<12, 8>>, "G.X")>>, <<12, 8>>, "I") >>,
        << Field(<<Name("x", <<12, 13>>, "G.x")>>, <<12, 13>>, "X"),
           Field(<<Name("n", <<12, 18>>, "G.n")>>, <<12, 18>>, "int") >>,
        <<>>,
        BlockStmt(<<12, 25>>,
          << ExprStmt(CallExpr(
                 FuncLit(<<12, 27>>, <<>>, <<>>,
                     BlockStmt(<<12, 34>>,
                       << ExprStmt(CallExpr(
                              SelectorExpr(Ident(<<12, 36>>, "x", "G.x", "var"),
                                           Ident(<<12, 38>>, "M", "I.M", "func"), "method_val"),
                              <<12, 39>>,
                              <<UseN(<<12, 40>>), UseN(<<12, 43>>), UseN(<<12, 46>>)>>,
                              TRUE)) >>), 12),
                 <<12, 50>>, <<>>, FALSE)) >>),
        12)

DeclE ==
    FuncDecl(<<3, 1>>, "", Name("E", <<3, 6>>, "ext.E"), <<>>, <<>>, <<>>,
             BlockStmt(<<3, 10>>, <<>>), 3)

\* The loaded packages (packages.Load), each file with its syntax tree.
Pkgs ==
    << [PkgPath |-> "ex.com/m/p", Name |-> "p", Imports |-> {"ex.org/lib"},
        Files |-> << [absFile |-> "/w/m/p/a.go", readable |-> TRUE, content |-> "a.go text",
                      endLine |-> 12,
                      syntax |-> File(Ident(<<1, 9>>, "p", "", ""),
                                      <<DeclA, DeclB, DeclM, DeclG>>)],
                     [absFile |-> "/w/m/p/t.pb.go", readable |-> TRUE,
                      content |-> "t.pb.go text", endLine |-> 7,
                      syntax |-> File(Ident(<<1, 9>>, "p", "", ""), <<>>)] >>],
       [PkgPath |-> "ex.com/m/ext", Name |-> "ext", Imports |-> {},
        Files |-> << [absFile |-> "/w/m/ext/e.go", readable |-> TRUE, content |-> "e.go text",
                      endLine |-> 3,
                      syntax |-> File(Ident(<<1, 9>>, "ext", "", ""), <<DeclE>>)] >>] >>

\* WalkAST: every package; its result is the store and the two lookups.
WalkAST(g) ==
    walkPkgs([cpg |-> g, posLookup |-> <<>>, funcLookup |-> <<>>, defLookup |-> <<>>,
              initIDs |-> <<>>], Pkgs, 1)

-----------------------------------------------------------------------------
(* The SSA view (go/ssa) and the VTA call graph of the program.            *)

\* token.Position of a valid token.Pos; NoSsaPos is token.NoPos.
SsaPos(file, line, col) == [Filename |-> file, Line |-> line, Column |-> col]
NoSsaPos == [Filename |-> "", Line |-> 0, Column |-> 0]
IsValid(p) == p # NoSsaPos

InA(line, col) == SsaPos("/w/m/p/a.go", line, col)

\* An *ssa.Function: String(), Name(), the package path (Pkg, "" for nil),
\* Pos(), the positions of Params and the number of results.  Params of a
\* method start with the receiver.
SsaFunc(str, name, pkg, p, params, nres) ==
    [String |-> str, Name |-> name, Pkg |-> pkg, Pos |-> p, Params |-> params,
     NumResults |-> nres]

FnA == SsaFunc("ex.com/m/p.A", "A", "ex.com/m/p", InA(3, 6),
               <<InA(3, 8), InA(3, 13), InA(3, 20)>>, 0)
FnALit == SsaFunc("ex.com/m/p.A$1", "A$1", "ex.com/m/p", InA(7, 2), <<>>, 0)
FnB == SsaFunc("ex.com/m/p.B", "B", "ex.com/m/p", InA(10, 6), <<InA(10, 8)>>, 1)
FnM == SsaFunc("(ex.com/m/p.T).M", "M", "ex.com/m/p", InA(11, 12),
               <<InA(11, 7), InA(11, 14), InA(11, 17), InA(11, 20)>>, 0)
\* K is declared in the skipped file p/t.pb.go.
FnK == SsaFunc("ex.com/m/p.K", "K", "ex.com/m/p", SsaPos("/w/m/p/t.pb.go", 5, 6),
               <<SsaPos("/w/m/p/t.pb.go", 5, 8)>>, 0)
\* The literal inside G, once per instance of G; an instance has no package.
FnGTLit == SsaFunc("ex.com/m/p.G[ex.com/m/p.T]$1", "G[ex.com/m/p.T]$1", "",
                   InA(12, 27), <<>>, 0)
FnGILit == SsaFunc("ex.com/m/p.G[ex.com/m/p.I]$1", "G[ex.com/m/p.I]$1", "",
                   InA(12, 27), <<>>, 0)
\* Functions of a package outside the module set.
FnLibF == SsaFunc("ex.org/lib.F", "F", "ex.org/lib", SsaPos("/gp/lib/f.go", 3, 6),
                  <<SsaPos("/gp/lib/f.go", 3, 8)>>, 1)
FnLibG == SsaFunc("ex.org/lib.G", "G", "ex.org/lib", SsaPos("/gp/lib/f.go", 5, 6), <<>>, 0)
\* A function with neither package nor position.
FnShared == SsaFunc("(error).Error", "Error", "", NoSsaPos, <<>>, 1)

\* A call site (ssa.CallInstruction): Pos(), Common().IsInvoke() and the
\* positions of Common().Args.  In call mode the receiver of a method is
\* Args[0]; in invoke mode the receiver is not in Args.
Site(p, invoke, args) == [Pos |-> p, IsInvoke |-> invoke, Args |-> args]
NoSite == [Pos |-> NoSsaPos, IsInvoke |-> FALSE, Args |-> <<>>, nil |-> TRUE]

CgEdge(caller, callee, site) == [Caller |-> caller, Callee |-> callee, Site |-> site]

\* The edges vta.CallGraph can hand over, those of one caller in
\* instruction order.
VtaEdges ==
    << CgEdge(FnA, FnB, Site(InA(4, 3), FALSE, <<InA(3, 13)>>)),
       CgEdge(FnA, FnLibF, Site(InA(5, 7), FALSE, <<InA(3, 13)>>)),
       CgEdge(FnA, FnM, Site(InA(6, 5), FALSE,
                             <<InA(3, 8), InA(3, 13), InA(3, 13), InA(3, 13)>>)),
       CgEdge(FnA, FnALit, Site(InA(7, 17), FALSE, <<>>)),
       CgEdge(FnALit, FnB, Site(InA(7, 12), FALSE, <<InA(3, 13)>>)),
       CgEdge(FnA, FnK, Site(InA(8, 10), FALSE, <<InA(3, 13)>>)),
       CgEdge(FnGTLit, FnM, Site(InA(12, 39), FALSE,
                                 <<InA(12, 13), InA(12, 18), InA(12, 18), InA(12, 18)>>)),
       CgEdge(FnGILit, FnM, Site(InA(12, 39), TRUE,
                                 <<InA(12, 18), InA(12, 18), InA(12, 18)>>)),
       CgEdge(FnLibG, FnB, Site(SsaPos("/gp/lib/f.go", 6, 3), FALSE, <<NoSsaPos>>)),
       CgEdge(FnLibG, FnLibF, Site(SsaPos("/gp/lib/f.go", 7, 3), FALSE, <<NoSsaPos>>)),
       CgEdge(FnA, FnShared, Site(InA(5, 7), TRUE, <<>>)),
       CgEdge(FnA, FnB, NoSite),
       CgEdge(FnA, FnB, Site(NoSsaPos, FALSE, <<InA(3, 13)>>)) >>

\* ssaFuncNodeID
ssaFuncNodeID(f, fl) ==
    IF ~IsValid(f.Pos) THEN ""
    ELSE IF RelFile(f.Pos.Filename) = "" THEN ""
    ELSE LookupGet(fl, RelFile(f.Pos.Filename), f.Pos.Line, f.Pos.Column)

\* The node id PosLookup has for an SSA position, "" for an invalid
\* position or a file outside the modules.
posNodeID(p, pl) ==
    IF ~IsValid(p) THEN ""
    ELSE IF RelFile(p.Filename) = "" THEN ""
    ELSE LookupGet(pl, RelFile(p.Filename), p.Line, p.Column)

\* The param_in index of argument i under an offset.
paramIndex(i, offset) == i - offset

\* The param_in loop of BuildCallGraph, from argument i on.
RECURSIVE paramInEdges(_, _, _, _, _, _)
paramInEdges(g, args, params, offset, i, pl) ==
    IF ~(i < Len(args) /\ (i - offset) < Len(params)) THEN g
    ELSE LET argID == posNodeID(args[i + 1], pl)
             paramID == posNodeID(params[(i - offset) + 1], pl)
         IN IF argID = "" \/ paramID = ""
            THEN paramInEdges(g, args, params, offset, i + 1, pl)
            ELSE paramInEdges(
                     AddEdge(g, Edge(argID, paramID, "param_in",
                                     {<<"index", paramIndex(i, offset)>>})),
                     args, params, offset, i + 1, pl)

\* The stub node of an external callee.
stubNode(callee) ==
    [Node("ext::" \o callee.String, "function", callee.Name, 0, 0,
          {<<"external", TRUE>>, <<"full_name", callee.String>>})
       EXCEPT !.Package = RelPkg(callee.Pkg)]

\* The part of the callback after the call edge: call_site, param_in,
\* param_out and call_to_return.
siteEdges(g, e, callerID, calleeID, props, pl) ==
    LET siteID == posNodeID(e.Site.Pos, pl)
        g1 == IF siteID # "" THEN AddEdge(g, Edge(siteID, calleeID, "call_site", props)) ELSE g
        g2 == paramInEdges(g1, e.Site.Args, e.Callee.Params,
                           IF e.Site.IsInvoke THEN 1 ELSE 0,
                           IF e.Site.IsInvoke THEN 1 ELSE 0, pl)
        g3 == IF siteID # "" /\ e.Callee.NumResults > 0
              THEN AddEdge(g2, Edge(calleeID, siteID, "param_out",
                                    {<<"num_results", e.Callee.NumResults>>}))
              ELSE g2
    IN IF siteID # ""
       THEN AddEdge(g3, Edge(callerID, siteID, "call_to_return", NoProps))
       ELSE g3

\* The callback without the early return for a callee of a known module
\* that FuncLookup does not have: it takes the stub branch instead.
visitEdgeStubKnown(s, e, pl, fl) ==
    LET caller == e.Caller
        callee == e.Callee
        callerKnown == caller.Pkg # "" /\ IsKnownPkg(caller.Pkg)
        calleeKnown == callee.Pkg # "" /\ IsKnownPkg(callee.Pkg)
        callerID == ssaFuncNodeID(caller, fl)
        calleeID0 == ssaFuncNodeID(callee, fl)
        needStub == calleeID0 = "" /\ callee.Pkg # ""
        stubID == "ext::" \o callee.String
        s1 == IF needStub /\ stubID \notin s.stubs
              THEN [cpg |-> AddNode(s.cpg, stubNode(callee)), stubs |-> s.stubs \cup {stubID}]
              ELSE s
        calleeID == IF needStub THEN stubID ELSE calleeID0
        props == IF e.Site # NoSite /\ e.Site.IsInvoke THEN {<<"dynamic", TRUE>>} ELSE NoProps
        g1 == AddEdge(s1.cpg, Edge(callerID, calleeID, "call", props))
    IN IF ~callerKnown /\ ~calleeKnown THEN s
       ELSE IF callerID = "" THEN s
       ELSE IF calleeID = "" THEN s1
       ELSE IF e.Site = NoSite \/ ~IsValid(e.Site.Pos) THEN [s1 EXCEPT !.cpg = g1]
       ELSE [s1 EXCEPT !.cpg = siteEdges(g1, e, callerID, calleeID, props, pl)]

\* The callback BuildCallGraph passes to GraphVisitEdges, on one edge.
\* s is [cpg, stubs]; pl and fl are the lookups WalkAST returned.
visitEdge(s, e, pl, fl) ==
    LET caller == e.Caller
        callee == e.Callee
        callerKnown == caller.Pkg # "" /\ IsKnownPkg(caller.Pkg)
        calleeKnown == callee.Pkg # "" /\ IsKnownPkg(callee.Pkg)
        callerID == ssaFuncNodeID(caller, fl)
        calleeID0 == ssaFuncNodeID(callee, fl)
        needStub == calleeID0 = "" /\ callee.Pkg # ""
        stubID == "ext::" \o callee.String
        s1 == IF needStub /\ stubID \notin s.stubs
              THEN [cpg |-> AddNode(s.cpg, stubNode(callee)), stubs |-> s.stubs \cup {stubID}]
              ELSE s
        calleeID == IF needStub THEN stubID ELSE calleeID0
        props == IF e.Site # NoSite /\ e.Site.IsInvoke THEN {<<"dynamic", TRUE>>} ELSE NoProps
        g1 == AddEdge(s1.cpg, Edge(callerID, calleeID, "call", props))
    IN IF ~callerKnown /\ ~calleeKnown THEN s
       ELSE IF callerID = "" THEN s
       ELSE IF needStub /\ calleeKnown THEN s
       ELSE IF calleeID = "" THEN s1
       ELSE IF e.Site = NoSite \/ ~IsValid(e.Site.Pos) THEN [s1 EXCEPT !.cpg = g1]
       ELSE [s1 EXCEPT !.cpg = siteEdges(g1, e, callerID, calleeID, props, pl)]

-----------------------------------------------------------------------------
(* ComputeMetrics and ComputeFanInOut.                                     *)

\* The FuncDecl and FuncLit nodes ast.Inspect meets at or below n, in order.
RECURSIVE funcNodes(_)
RECURSIVE funcNodesOf(_, _)
funcNodes(n) ==
    (IF n.type \in {"FuncDecl", "FuncLit"} THEN <<n>> ELSE <<>>) \o funcNodesOf(Children(n), 1)

funcNodesOf(list, k) ==
    IF k > Len(list) THEN <<>> ELSE funcNodes(list[k]) \o funcNodesOf(list, k + 1)

\* The decision points ast.Inspect counts at or below n.
RECURSIVE decisionPoints(_)
RECURSIVE decisionPointsOf(_, _)
decisionPoints(n) ==
    (IF n.type = "IfStmt" THEN 1 ELSE 0) + decisionPointsOf(Children(n), 1)

decisionPointsOf(list, k) ==
    IF k > Len(list) THEN 0 ELSE decisionPoints(list[k]) + decisionPointsOf(list, k + 1)

\* countParams
RECURSIVE countParams(_, _)
countParams(fl, k) ==
    IF k > Len(fl) THEN 0
    ELSE (IF Len(fl[k].Names) = 0 THEN 1 ELSE Len(fl[k].Names)) + countParams(fl, k + 1)

\* The Metrics of one function node of a file, "" id when FuncLookup has none.
metricsOf(f, relFile, fl) ==
    LET funcID == LookupGet(fl, relFile, f.pos[1], f.pos[2])
        complexity == 1 + (IF f.Body # NoNode THEN decisionPoints(f.Body) ELSE 0)
    IN MetricsRec(funcID, complexity, f.endLine - f.pos[1] + 1, countParams(f.Params, 1), 0, 0)

RECURSIVE metricsOfFuncs(_, _, _, _, _)
metricsOfFuncs(m, fs, k, relFile, fl) ==
    IF k > Len(fs) THEN m
    ELSE LET r == metricsOf(fs[k], relFile, fl)
         IN metricsOfFuncs(IF r.FunctionID = "" THEN m ELSE MapPut(m, r.FunctionID, r),
                           fs, k + 1, relFile, fl)

RECURSIVE metricsOfFiles(_, _, _, _)
metricsOfFiles(m, files, k, fl) ==
    IF k > Len(files) THEN m
    ELSE LET relFile == RelFile(files[k].absFile)
         IN IF relFile = "" \/ shouldSkipFile(relFile)
            THEN metricsOfFiles(m, files, k + 1, fl)
            ELSE metricsOfFiles(metricsOfFuncs(m, funcNodes(files[k].syntax), 1, relFile, fl),
                                files, k + 1, fl)

RECURSIVE metricsOfPkgs(_, _, _, _)
metricsOfPkgs(m, pkgs, k, fl) ==
    IF k > Len(pkgs) THEN m
    ELSE metricsOfPkgs(metricsOfFiles(m, pkgs[k].Files, 1, fl), pkgs, k + 1, fl)

\* ComputeMetrics
ComputeMetrics(g, fl) == [g EXCEPT !.Metrics = metricsOfPkgs(@, Pkgs, 1, fl)]

\* fanIn[id] and fanOut[id]: the call edges into and out of id.
fanIn(g, id) == Cardinality({i \in 1..Len(g.Edges) : g.Edges[i].Kind = "call" /\ g.Edges[i].Target = id})
fanOut(g, id) == Cardinality({i \in 1..Len(g.Edges) : g.Edges[i].Kind = "call" /\ g.Edges[i].Source = id})

\* recursive[id]: a call edge from id to itself.
selfCall(g, id) ==
    \E i \in 1..Len(g.Edges) :
        g.Edges[i].Kind = "call" /\ g.Edges[i].Source = id /\ g.Edges[i].Target = id

\* ComputeFanInOut without the update of the entries ComputeMetrics made:
\* only the call ends that have no entry get one.
ComputeFanInOutNewOnly(g) ==
    LET callEnds == {g.Edges[i].Source : i \in {j \in 1..Len(g.Edges) : g.Edges[j].Kind = "call"}}
                    \cup {g.Edges[i].Target : i \in {j \in 1..Len(g.Edges) : g.Edges[j].Kind = "call"}}
        metrics == [id \in (DOMAIN g.Metrics) \cup callEnds |->
                      IF id \in DOMAIN g.Metrics THEN g.Metrics[id]
                      ELSE MetricsRec(id, 0, 0, 0, fanIn(g, id), fanOut(g, id))]
    IN [g EXCEPT !.Metrics = metrics]

\* ComputeFanInOut
ComputeFanInOut(g) ==
    LET callEnds == {g.Edges[i].Source : i \in {j \in 1..Len(g.Edges) : g.Edges[j].Kind = "call"}}
                    \cup {g.Edges[i].Target : i \in {j \in 1..Len(g.Edges) : g.Edges[j].Kind = "call"}}
        nodes == [i \in 1..Len(g.Nodes) |->
                    IF g.Nodes[i].Kind = "function" /\ selfCall(g, g.Nodes[i].ID)
                    THEN [g.Nodes[i] EXCEPT !.Properties = SetProp(@, "recursive", TRUE)]
                    ELSE g.Nodes[i]]
        metrics == [id \in (DOMAIN g.Metrics) \cup callEnds |->
                      IF id \in DOMAIN g.Metrics
                      THEN [g.Metrics[id] EXCEPT !.FanIn = fanIn(g, id), !.FanOut = fanOut(g, id)]
                      \* &Metrics{FunctionID, FanIn, FanOut}: the other fields are zero
                      ELSE MetricsRec(id, 0, 0, 0, fanIn(g, id), fanOut(g, id))]
    IN [g EXCEPT !.Nodes = nodes, !.Metrics = metrics]

\* The META_DATA node run() adds before the flush.
metaNode ==
    Node("META_DATA", "meta_data", "CPG Metadata", 0, 0,
         {<<"language", "go">>, <<"version", "1.0">>, <<"generator", "cpg-gen">>,
          <<"root", Modules[1].Dir>>, <<"modules", Len(Modules)>>})

-----------------------------------------------------------------------------
(* Specification SpecCG: run() from WalkAST to the flush, with the call    *)
(* graph phase taking the VTA edges one callback at a time.                *)

MaxVtaEdges == 3

\* The store and the lookups after WalkAST on the empty store.
Walked == WalkAST(NewCPG)

InitCG ==
    /\ cpg = NewCPG
    /\ log = <<>>
    /\ pc = "start"
    /\ Idle

\* Phase 2: posLookup, funcLookup := WalkAST(...)
RunWalkAST ==
    /\ pc = "start"
    /\ \E w \in {WalkAST(cpg)} :
          /\ cpg' = w.cpg
          /\ posLookup' = w.posLookup
          /\ funcLookup' = w.funcLookup
          /\ defLookup' = w.defLookup
    /\ pc' = "ast"
    /\ UNCHANGED <<log, vta, pending, stubs, fn, input, db>>

\* Phase 5, BuildCallGraph up to GraphVisitEdges: vta.CallGraph yields the
\* edges (a set of indices into VtaEdges), stubs is made empty.
BuildCallGraph(S) ==
    /\ pc = "ast"
    /\ Cardinality(S) <= MaxVtaEdges
    /\ vta' = S
    /\ pending' = S
    /\ stubs' = {}
    /\ pc' = "callgraph"
    /\ UNCHANGED <<cpg, log, fn, input, defLookup, db, posLookup, funcLookup>>

\* GraphVisitEdges calls the callback on edge k.  The edges of one caller
\* into one callee come in instruction order; the order is free otherwise
\* (the graph's nodes are a Go map).
VisitEdge(k) ==
    /\ pc = "callgraph"
    /\ k \in pending
    /\ \A j \in pending :
          (VtaEdges[j].Caller = VtaEdges[k].Caller /\ VtaEdges[j].Callee = VtaEdges[k].Callee)
             => k <= j
    /\ \E s \in {visitEdge([cpg |-> cpg, stubs |-> stubs], VtaEdges[k], posLookup, funcLookup)} :
          /\ cpg' = s.cpg
          /\ stubs' = s.stubs
    /\ pending' = pending \ {k}
    /\ UNCHANGED <<log, pc, vta, fn, input, defLookup, db, posLookup, funcLookup>>

\* Phase 7: ComputeMetrics, once GraphVisitEdges has returned.
RunComputeMetrics ==
    /\ pc = "callgraph"
    /\ pending = {}
    /\ cpg' = ComputeMetrics(cpg, funcLookup)
    /\ pc' = "metrics"
    /\ UNCHANGED <<log, vta, pending, stubs, fn, input, defLookup, db, posLookup, funcLookup>>

\* Phase 7b: ComputeFanInOut
RunComputeFanInOut ==
    /\ pc = "metrics"
    /\ cpg' = ComputeFanInOut(cpg)
    /\ pc' = "fan"
    /\ UNCHANGED <<log, vta, pending, stubs, fn, input, defLookup, db, posLookup, funcLookup>>

\* run() adds the META_DATA node; the store is then handed to WriteDB.
AddMetaData ==
    /\ pc = "fan"
    /\ cpg' = AddNode(cpg, metaNode)
    /\ pc' = "flush"
    /\ UNCHANGED <<log, vta, pending, stubs, fn, input, defLookup, db, posLookup, funcLookup>>

NextCG ==
    \/ RunWalkAST
    \/ \E S \in SUBSET (1..Len(VtaEdges)) : BuildCallGraph(S)
    \/ \E k \in 1..Len(VtaEdges) : VisitEdge(k)
    \/ RunComputeMetrics
    \/ RunComputeFanInOut
    \/ AddMetaData

SpecCG == InitCG /\ [][NextCG]_vars

-----------------------------------------------------------------------------
(* Properties of the call-graph and metrics phases (SpecCG).               *)

\* GraphVisitEdges taking the edges S in ascending index order.
RECURSIVE visitInOrder(_, _, _, _)
visitInOrder(s, S, pl, fl) ==
    IF S = {} THEN s
    ELSE LET k == CHOOSE i \in S : \A j \in S : i <= j
         IN visitInOrder(visitEdge(s, VtaEdges[k], pl, fl), S \ {k}, pl, fl)

\* The store GraphVisitEdges leaves when it takes the edges of vta in
\* ascending order, starting from the store WalkAST left.
InOrderStore == visitInOrder([cpg |-> Walked.cpg, stubs |-> {}], vta, posLookup, funcLookup).cpg

\* C3: for a fixed input (the same VTA edges over the same AST), the store
\* BuildCallGraph leaves does not depend on the order in which
\* GraphVisitEdges hands the edges to the callback: every order yields the
\* node set and the edge set (keys and properties) of the ascending order.
C3_OrderIndependent ==
    (pc = "callgraph" /\ pending = {}) =>
        /\ NodeSet(cpg) = NodeSet(InOrderStore)
        /\ EdgeSet(cpg) = EdgeSet(InOrderStore)

\* C6: when the store is handed to WriteDB, every node of kind function
\* (named function, method, literal or external stub) has a Metrics entry
\* under its id with CyclomaticComplexity >= 1.
C6_FunctionMetrics ==
    pc = "flush" =>
        \A n \in NodeSet(cpg) :
            n.Kind = "function" =>
                /\ n.ID \in DOMAIN cpg.Metrics
                /\ cpg.Metrics[n.ID].CyclomaticComplexity >= 1

\* C9: for every call_site edge (call-site node -> callee C) the store has
\* a call edge to C whose source is the function enclosing the call site,
\* i.e. the ParentFunction of the call-site node.
C9_CallSiteHasCall ==
    \A e \in EdgeSet(cpg) :
        e.Kind = "call_site" =>
            \E n \in NodeSet(cpg) :
                /\ n.ID = e.Source
                /\ \E c \in EdgeSet(cpg) :
                      c.Kind = "call" /\ c.Target = e.Target /\ c.Source = n.ParentFunction

\* A call_site edge whose call site lies in a function literal nested in a
\* function, with the call edge from that literal.
C9_Witness ==
    \E e \in EdgeSet(cpg) :
        /\ e.Kind = "call_site"
        /\ \E n \in NodeSet(cpg), f \in NodeSet(cpg) :
              /\ n.ID = e.Source
              /\ f.ID = n.ParentFunction
              /\ f.Kind = "function"
              /\ f.ParentFunction # ""
              /\ \E c \in EdgeSet(cpg) :
                    c.Kind = "call" /\ c.Target = e.Target /\ c.Source = f.ID

\* The parameter nodes of function id, in declaration order.
ParamNodes(g, id) ==
    SelectSeq(g.Nodes, LAMBDA n : n.Kind = "parameter" /\ n.ParentFunction = id)

\* C10: every param_in edge has an index i with 0 <= i < the number of
\* formal parameters of the callee, and its target is the node of the
\* callee's i-th parameter; calls through an interface included.
C10_ParamInIndex ==
    \A e \in EdgeSet(cpg) :
        e.Kind = "param_in" =>
            \E t \in NodeSet(cpg) :
                /\ t.ID = e.Target
                /\ LET ps == ParamNodes(cpg, t.ParentFunction)
                       i == PropOf(e.Properties, "index")
                   IN /\ 0 <= i
                      /\ i < Len(ps)
                      /\ ps[i + 1].ID = e.Target

\* The callee of VTA edge k lies in a package of a known module.
CalleeKnown(k) ==
    VtaEdges[k].Callee.Pkg # "" /\ IsKnownPkg(VtaEdges[k].Callee.Pkg)

\* C11: BuildCallGraph never has an ext:: stub node for a callee whose
\* package belongs to a known module, and the callback on an edge whose
\* known-module callee FuncLookup cannot resolve leaves the store as it
\* was: no stub and no call, call_site, param_in, param_out or
\* call_to_return edge for that edge.
C11_NoStubForKnownCallee ==
    [][ /\ \A j \in 1..Len(VtaEdges) :
              CalleeKnown(j) => ("ext::" \o VtaEdges[j].Callee.String) \notin NodeIDs(cpg')
        /\ \A k \in pending \ pending' :
              (CalleeKnown(k) /\ ssaFuncNodeID(VtaEdges[k].Callee, funcLookup) = "")
                 => (cpg' = cpg /\ stubs' = stubs) ]_vars

\* The callback has run on an edge from a module function with a node to a
\* known-module callee that FuncLookup does not have (K, declared in the
\* skipped file), and on nothing else.
C11_Witness ==
    /\ pc = "callgraph"
    /\ pending = {}
    /\ \E k \in vta :
          /\ vta = {k}
          /\ CalleeKnown(k)
          /\ ssaFuncNodeID(VtaEdges[k].Callee, funcLookup) = ""
          /\ ssaFuncNodeID(VtaEdges[k].Caller, funcLookup) # ""

\* The ids that start with ext:: among the nodes, and among the targets of
\* the call and call_site edges.
ExtNodeIDs(g) == {n.ID : n \in {m \in NodeSet(g) : HasPrefix(m.ID, "ext::")}}
ExtCallTargets(g) ==
    {e.Target : e \in {d \in EdgeSet(g) : /\ d.Kind \in {"call", "call_site"}
                                           /\ HasPrefix(d.Target, "ext::")}}

\* C12: in the store handed to WriteDB, a node whose id starts with ext::
\* exists if and only if a call or call_site edge has that id as target.
C12_ExtNodeIffCalled ==
    pc = "flush" => ExtNodeIDs(cpg) = ExtCallTargets(cpg)

\* The nodes reachable from the nodes of set ids by following ast edges.
RECURSIVE AstClosure(_, _)
AstClosure(g, ids) ==
    LET more == {e.Target : e \in {x \in EdgeSet(g) : x.Kind = "ast" /\ x.Source \in ids}}
    IN IF more \subseteq ids THEN ids ELSE AstClosure(g, ids \cup more)

FileNodeIDs(g) == {n.ID : n \in {x \in NodeSet(g) : x.Kind = "file"}}

\* C19: every node of the final store whose kind is neither file nor
\* package is reachable from some file node by following ast edges.
C19_ReachableFromFile ==
    pc = "flush" =>
        \A n \in NodeSet(cpg) :
            n.Kind \notin {"file", "package"} => n.ID \in AstClosure(cpg, FileNodeIDs(cpg))

\* The call edges of the store.
CallEdges(g) == {e \in EdgeSet(g) : e.Kind = "call"}

\* C21: once ComputeFanInOut has run, every function id with a Metrics
\* entry has as fan-in the number of call edges of the store that target
\* it and as fan-out the number that leave it, up to the flush: no call
\* edge is added after the counts are taken.
C21_FanInOutCounts ==
    pc \in {"fan", "flush"} =>
        \A f \in DOMAIN cpg.Metrics :
            /\ cpg.Metrics[f].FanIn = Cardinality({e \in CallEdges(cpg) : e.Target = f})
            /\ cpg.Metrics[f].FanOut = Cardinality({e \in CallEdges(cpg) : e.Source = f})

\* At the flush a function ComputeMetrics measured has a caller and one
\* has two callees.
C21_Witness ==
    /\ pc = "flush"
    /\ \E f \in DOMAIN cpg.Metrics : cpg.Metrics[f].LOC > 0 /\ cpg.Metrics[f].FanIn >= 1
    /\ \E f \in DOMAIN cpg.Metrics : cpg.Metrics[f].LOC > 0 /\ cpg.Metrics[f].FanOut >= 2

-----------------------------------------------------------------------------
(* ExtractCDG.  A function is the sequence of its blocks' Succs: block i   *)
(* (0-based, as Block.Index) is blocks[i + 1], a sequence of block         *)
(* indices.  Go slices indexed from 0 are functions on 0..n-1.             *)

Succs(blocks, i) == blocks[i + 1]

\* exits: the blocks without successors, from block i on.
RECURSIVE exitsFrom(_, _)
exitsFrom(blocks, i) ==
    IF i >= Len(blocks) THEN <<>>
    ELSE (IF Len(Succs(blocks, i)) = 0 THEN <<i>> ELSE <<>>) \o exitsFrom(blocks, i + 1)

\* One copy of x for every occurrence of j in s.
copiesFor(s, j, x) == [k \in 1..Len(SelectSeq(s, LAMBDA y : y = j)) |-> x]

\* revAdj[j] for a real block j: every i with an edge i -> j, in the order
\* the loops over blocks and Succs append them.
RECURSIVE revAdjOf(_, _, _)
revAdjOf(blocks, j, i) ==
    IF i >= Len(blocks) THEN <<>>
    ELSE copiesFor(Succs(blocks, i), j, i) \o revAdjOf(blocks, j, i + 1)

\* revPreds[to]: every from with to in revAdj[from], in the order the loops
\* over revAdj append them.
RECURSIVE revPredsOf(_, _, _, _)
revPredsOf(revAdj, total, to, from) ==
    IF from >= total THEN <<>>
    ELSE copiesFor(revAdj[from], to, from) \o revPredsOf(revAdj, total, to, from + 1)

\* reversePostorder: dfs(node) with the visited set and the order so far.
RECURSIVE dfs(_, _, _)
RECURSIVE dfsNext(_, _, _, _)
dfs(st, adj, node) ==
    [dfsNext([st EXCEPT !.visited = @ \cup {node}], adj, node, 1)
        EXCEPT !.order = Append(@, node)]

dfsNext(st, adj, node, k) ==
    IF k > Len(adj[node]) THEN st
    ELSE IF adj[node][k] \in st.visited THEN dfsNext(st, adj, node, k + 1)
    ELSE dfsNext(dfs(st, adj, adj[node][k]), adj, node, k + 1)

reversePostorder(adj, root) ==
    LET order == dfs([visited |-> {}, order |-> <<>>], adj, root).order
    IN [i \in 1..Len(order) |-> order[Len(order) + 1 - i]]

\* The outcome of an index of -1 into idom or rpoPos: the run panics.
ChkPanic == -2

\* chkIntersect
RECURSIVE chkIntersect(_, _, _, _)
\* The intersection that keeps b whatever a is.
chkIntersectKeep(idom, rpoPos, a, b) == b

chkIntersect(idom, rpoPos, a, b) ==
    CASE a < 0 \/ b < 0 -> ChkPanic
      [] a >= 0 /\ b >= 0 /\ a = b -> a
      [] a >= 0 /\ b >= 0 /\ a # b /\ rpoPos[a] > rpoPos[b] ->
            chkIntersect(idom, rpoPos, idom[a], b)
      [] a >= 0 /\ b >= 0 /\ a # b /\ rpoPos[b] > rpoPos[a] ->
            chkIntersect(idom, rpoPos, a, idom[b])

\* The first p of preds with idom[p] # -1, or -1.
RECURSIVE firstProcessed(_, _, _)
\* The first p of preds whether it has an idom or not, or -1.
firstProcessedAny(idom, preds, k) == IF k > Len(preds) THEN -1 ELSE preds[k]

firstProcessed(idom, preds, k) ==
    IF k > Len(preds) THEN -1
    ELSE IF idom[preds[k]] # -1 THEN preds[k]
    ELSE firstProcessed(idom, preds, k + 1)

\* The second loop over revPreds[b]: newIdom intersected with every other
\* processed predecessor.
RECURSIVE intersectPreds(_, _, _, _, _)
intersectPreds(idom, rpoPos, preds, k, newIdom) ==
    IF k > Len(preds) THEN newIdom
    ELSE IF preds[k] = newIdom \/ idom[preds[k]] = -1
    THEN intersectPreds(idom, rpoPos, preds, k + 1, newIdom)
    ELSE intersectPreds(idom, rpoPos, preds, k + 1,
                        chkIntersect(idom, rpoPos, preds[k], newIdom))

\* One pass of the CHK loop over rpo from position k; st is [idom, changed].
RECURSIVE chkPass(_, _, _, _, _, _)
chkPass(st, rpo, rpoPos, revPreds, vExit, k) ==
    IF k > Len(rpo) THEN st
    ELSE LET b == rpo[k]
             first == firstProcessed(st.idom, revPreds[b], 1)
             newIdom == intersectPreds(st.idom, rpoPos, revPreds[b], 1, first)
         IN IF b = vExit \/ first = -1 \/ st.idom[b] = newIdom
            THEN chkPass(st, rpo, rpoPos, revPreds, vExit, k + 1)
            ELSE chkPass([idom |-> [st.idom EXCEPT ![b] = newIdom], changed |-> TRUE],
                         rpo, rpoPos, revPreds, vExit, k + 1)

\* for changed { ... }
RECURSIVE chkLoop(_, _, _, _, _)
chkLoop(idom, rpo, rpoPos, revPreds, vExit) ==
    CHOOSE r \in {IF st.changed THEN chkLoop(st.idom, rpo, rpoPos, revPreds, vExit)
                   ELSE st.idom :
                   st \in {chkPass([idom |-> idom, changed |-> FALSE],
                                    rpo, rpoPos, revPreds, vExit, 1)}} : TRUE

\* revAdj: the reversed CFG with the virtual exit n before every exit.
pdRevAdj(blocks) ==
    [j \in 0..Len(blocks) |->
        IF j = Len(blocks) THEN exitsFrom(blocks, 0) ELSE revAdjOf(blocks, j, 0)]

\* rpoPos: the position of a node in rpo, -1 when it is not in it.
pdRpoPos(blocks, rpo) ==
    [x \in 0..Len(blocks) |->
        IF \E i \in 1..Len(rpo) : rpo[i] = x
        THEN (CHOOSE i \in 1..Len(rpo) : rpo[i] = x) - 1 ELSE -1]

\* revPreds: the predecessors in the reversed CFG.
pdRevPreds(blocks) ==
    [to \in 0..Len(blocks) |-> revPredsOf(pdRevAdj(blocks), Len(blocks) + 1, to, 0)]

\* idom before the first pass: the virtual exit is its own dominator.
pdIdom0(blocks) == [x \in 0..Len(blocks) |-> IF x = Len(blocks) THEN Len(blocks) ELSE -1]

\* The real blocks' post-dominators, the virtual exit mapped to -1.
pdResult(blocks, idom) ==
    [i \in 0..(Len(blocks) - 1) |->
        IF idom[i] >= Len(blocks) \/ idom[i] < 0 THEN -1 ELSE idom[i]]

\* postDominators: ipdom[i] for the real blocks, -1 for "none".
postDominators(blocks) ==
    LET n == Len(blocks)
        vExit == n
        exits == exitsFrom(blocks, 0)
        rpo == reversePostorder(pdRevAdj(blocks), vExit)
        idom == chkLoop(pdIdom0(blocks), rpo, pdRpoPos(blocks, rpo), pdRevPreds(blocks), vExit)
    IN IF Len(exits) = 0 THEN [i \in 0..(n - 1) |-> -1]
       ELSE pdResult(blocks, idom)

\* The walk up the post-dominator tree that stops only at "none".
RECURSIVE cdgWalkPastStop(_, _, _, _, _, _)
RECURSIVE cdgWalk(_, _, _, _, _, _)
cdgWalkPastStop(g, blockIDs, ipdom, u, w, stop) ==
    IF w # -1
    THEN cdgWalkPastStop(AddEdge(g, Edge(blockIDs[u], blockIDs[w], "cdg", NoProps)),
                         blockIDs, ipdom, u, ipdom[w], stop)
    ELSE g

\* for w != -1 && w != stop { AddEdge(cdg u -> w); w = ipdom[w] }
cdgWalk(g, blockIDs, ipdom, u, w, stop) ==
    IF w # -1 /\ w # stop
    THEN cdgWalk(AddEdge(g, Edge(blockIDs[u], blockIDs[w], "cdg", NoProps)),
                 blockIDs, ipdom, u, ipdom[w], stop)
    ELSE g

\* for _, succBlock := range block.Succs
RECURSIVE cdgSuccs(_, _, _, _, _, _)
cdgSuccs(g, blockIDs, ipdom, blocks, u, k) ==
    IF k > Len(Succs(blocks, u)) THEN g
    ELSE cdgSuccs(cdgWalk(g, blockIDs, ipdom, u, Succs(blocks, u)[k], ipdom[u]),
                  blockIDs, ipdom, blocks, u, k + 1)

\* for u, block := range fn.Blocks: only branching blocks emit
RECURSIVE cdgBlocks(_, _, _, _, _)
cdgBlocks(g, blockIDs, ipdom, blocks, u) ==
    IF u >= Len(blocks) THEN g
    ELSE cdgBlocks(IF Len(Succs(blocks, u)) < 2 THEN g
                   ELSE cdgSuccs(g, blockIDs, ipdom, blocks, u, 1),
                   blockIDs, ipdom, blocks, u + 1)

\* The blocks reachable from the blocks of todo without entering a block of
\* seen.
RECURSIVE reach(_, _, _)
reach(blocks, seen, todo) ==
    IF todo \subseteq seen THEN seen
    ELSE reach(blocks, seen \cup todo,
               UNION {Range(Succs(blocks, i)) : i \in todo \ seen})

\* The dominator tree go/ssa builds for the function: idom[b] is the
\* immediate dominator of block b, -1 for the entry.  d dominates b when b
\* cannot be reached from the entry once d is taken out.
domTree(blocks) ==
    LET all == 0..(Len(blocks) - 1)
    IN CHOOSE r \in
         {[b \in all |->
              IF b = 0 THEN -1
              ELSE CHOOSE d \in sdom[b] : \A x \in sdom[b] : x = d \/ d \notin sdom[x]] :
            sdom \in {[b \in all |->
                         {d \in all \ {b} : d = 0 \/ b \notin reach(blocks, {d}, {0})}]}} : TRUE

\* Block.Dominees(): the children of d in the dominator tree.
Dominees(idom, d) == {b \in DOMAIN idom : idom[b] = d}

RECURSIVE domChildren(_, _, _, _)
domChildren(g, blockIDs, d, children) ==
    IF children = {} THEN g
    ELSE LET c == CHOOSE x \in children : \A y \in children : x <= y
         IN domChildren(AddEdge(g, Edge(blockIDs[d], blockIDs[c], "dom", NoProps)),
                        blockIDs, d, children \ {c})

\* for _, block := range fn.Blocks { for _, child := range block.Dominees() }
RECURSIVE domEdges(_, _, _, _)
domEdges(g, blockIDs, idom, d) ==
    IF d \notin DOMAIN idom THEN g
    ELSE domEdges(domChildren(g, blockIDs, d, Dominees(idom, d)), blockIDs, idom, d + 1)

\* for i := 0; i < n; i++ { if ipdom[i] >= 0 && ipdom[i] < n { AddEdge(pdom) } }
RECURSIVE pdomEdges(_, _, _, _, _)
pdomEdges(g, blockIDs, ipdom, n, i) ==
    IF i >= n THEN g
    ELSE pdomEdges(IF ipdom[i] >= 0 /\ ipdom[i] < n
                   THEN AddEdge(g, Edge(blockIDs[ipdom[i]], blockIDs[i], "pdom", NoProps))
                   ELSE g,
                   blockIDs, ipdom, n, i + 1)

\* The body of ExtractCDG's loop for one function of a known package whose
\* node id is funcNodeID.
extractCDGFunc(g, funcNodeID, blocks) ==
    IF Len(blocks) < 2 \/ funcNodeID = "" THEN g
    ELSE CHOOSE r \in
           {pdomEdges(domEdges(cdgBlocks(g, blockIDs, ipdom, blocks, 0), blockIDs, idom, 0),
                      blockIDs, ipdom, Len(blocks), 0) :
              blockIDs \in {[i \in 0..(Len(blocks) - 1) |-> BlockID(funcNodeID, i)]},
              ipdom \in {postDominators(blocks)},
              idom \in {domTree(blocks)}} : TRUE

-----------------------------------------------------------------------------
(* Specification SpecCDG: ExtractCDG on one function, for every control    *)
(* flow graph of up to MaxBlocks blocks.                                   *)

MaxBlocks == 3

\* Succs of a block of an n-block function: none (Return, Panic), one
\* (Jump) or two (If).
SuccsOf(n) ==
    {<<>>} \cup {<<a>> : a \in 0..(n - 1)} \cup {<<a, b>> : a \in 0..(n - 1), b \in 0..(n - 1)}

\* The functions go/ssa can build: block 0 is the entry and every block is
\* reachable from it (unreachable blocks are deleted when a function is
\* built).
CdgFuncs ==
    UNION {{bs \in [1..n -> SuccsOf(n)] : reach(bs, {}, {0}) = 0..(n - 1)} : n \in 1..MaxBlocks}

\* The node id FuncLookup has for the function.
CdgFuncID == FuncID("p", "", "F", "a.go", 3, 1)

\* The function ExtractCDG's loop over AllFuncs is at.
InitCDG ==
    /\ cpg = NewCPG
    /\ log = <<>>
    /\ pc = "cdg"
    /\ fn \in CdgFuncs
    /\ vta = {} /\ pending = {} /\ stubs = {} /\ db = <<>> /\ input = <<>>
    /\ defLookup = <<>>
    /\ posLookup = <<>> /\ funcLookup = <<>>

\* The body of the loop for the function.
ExtractCDG ==
    /\ pc = "cdg"
    /\ cpg' = extractCDGFunc(cpg, CdgFuncID, fn)
    /\ pc' = "cdg_done"
    /\ UNCHANGED <<log, vta, pending, stubs, fn, input, defLookup, db, posLookup, funcLookup>>

NextCDG == ExtractCDG

SpecCDG == InitCDG /\ [][NextCDG]_vars

\* The ids of the function's blocks.
CdgBlockIDs == [i \in 0..MaxBlocks |-> BlockID(CdgFuncID, i)]

\* Edge kind from block u to block w of the function is in the store.
HasBlockEdge(kind, u, w) == <<CdgBlockIDs[u], CdgBlockIDs[w], kind>> \in cpg.edgeSeen

\* C7: for a function with at least two blocks, no emitted cdg edge u -> w
\* has w = ipdom(u), the immediate post-dominator postDominators computed.
C7_CdgNotIpdom ==
    (pc = "cdg_done" /\ Len(fn) >= 2) =>
        \A ipdom \in {postDominators(fn)} :
            \A u \in DOMAIN ipdom, w \in DOMAIN ipdom :
                HasBlockEdge("cdg", u, w) => ipdom[u] # w

\* A branching block u that has an immediate post-dominator, with a cdg
\* edge to another block w whose walk ended at ipdom(u).
C7_Witness ==
    /\ pc = "cdg_done"
    /\ Len(fn) >= 2
    /\ \E ipdom \in {postDominators(fn)} :
          \E u \in DOMAIN ipdom, w \in DOMAIN ipdom :
              /\ HasBlockEdge("cdg", u, w)
              /\ u # w
              /\ ipdom[u] >= 0
              /\ ipdom[w] = ipdom[u]

\* C8: a function with at least two blocks of which none is an exit (every
\* block has a successor) gets no pdom edge and no cdg edge.
C8_NoExitNoEdges ==
    (pc = "cdg_done" /\ Len(fn) >= 2 /\ \A i \in 1..Len(fn) : Len(fn[i]) >= 1) =>
        \A e \in EdgeSet(cpg) : e.Kind \notin {"pdom", "cdg"}

-----------------------------------------------------------------------------
(* WriteDB.  A table without a key is a bag of rows; the nodes table, keyed *)
(* by id, is a set of rows with distinct ids.  A properties column holds   *)
(* a JSON object, kept here as the property map json.Marshal was given;    *)
(* NULL (PropsJSON returns "" for an empty map) is the empty map.          *)

\* json_extract(properties, '$.key'): <<value>>, or <<>> for NULL.
jsonExtract(properties, key) ==
    IF HasProp(properties, key) THEN <<PropOf(properties, key)>> ELSE <<>>

\* createTables: nodes (id PRIMARY KEY), edges (no key), sources, metrics.
createTables ==
    [nodes |-> {}, edges |-> EmptyBag, sources |-> <<>>, metrics |-> <<>>,
     flow_semantics |-> {}]

\* insertNodes: INSERT OR IGNORE INTO nodes, one row per store node.
RECURSIVE insertNodes(_, _, _)
insertNodes(rows, nodes, i) ==
    IF i > Len(nodes) THEN rows
    ELSE insertNodes(IF \E r \in rows : r.ID = nodes[i].ID THEN rows
                     ELSE rows \cup {nodes[i]},
                     nodes, i + 1)

\* The row insertEdges binds for a store edge.
EdgeRow(e) ==
    [source |-> e.Source, target |-> e.Target, kind |-> e.Kind,
     properties |-> e.Properties]

\* insertEdges: INSERT INTO edges, one row per store edge.
RECURSIVE insertEdges(_, _, _)
insertEdges(rows, edges, i) ==
    IF i > Len(edges) THEN rows
    ELSE insertEdges(rows (+) SetToBag({EdgeRow(edges[i])}), edges, i + 1)

\* INSERT OR IGNORE INTO edges SELECT DISTINCT ...: the edges table has no
\* key, so no selected row is ignored.
insertOrIgnoreEdges(rows, selected) == rows (+) SetToBag(selected)

\* The rows createFlowSemantics seeds for the callees of the model; the
\* other seeded rows match no (package, name) the model has.
FlowSemantics ==
    { [package |-> "fmt", func_name |-> "Sprintf", flow_from |-> "arg:*",
       flow_to |-> "return:0"],
      [package |-> "strings", func_name |-> "Replace", flow_from |-> "arg:0",
       flow_to |-> "return:0"],
      [package |-> "encoding/json", func_name |-> "Unmarshal", flow_from |-> "arg:0",
       flow_to |-> "arg:1"] }

\* fs.flow_from = 'arg:*' OR fs.flow_from = 'arg:' || json_extract(properties, '$.index')
flowFromMatches(fs, properties) ==
    \/ fs.flow_from = "arg:*"
    \/ \E i \in Range(jsonExtract(properties, "index")) : fs.flow_from = "arg:" \o ToStr(i)

\* The join all three heuristic passes start from: call_site rows whose
\* target is a node with an id LIKE 'ext::%'.
extCallSites(d) ==
    {<<site, callee>> \in BagToSet(d.edges) \X d.nodes :
        /\ site.kind = "call_site"
        /\ site.target = callee.ID
        /\ HasPrefix(callee.ID, "ext::")}

argumentRows(d, callID) ==
    {r \in BagToSet(d.edges) : r.kind = "argument" /\ r.source = callID}

\* Step 1: precise dfg, argument -> call, for callees with a return flow.
preciseDFG(d) ==
    {[source |-> arg.target, target |-> sc[1].source, kind |-> "dfg",
      properties |-> {<<"heuristic", TRUE>>}] :
        <<sc, fs, arg>> \in
            {<<sc, fs, arg>> \in extCallSites(d) \X d.flow_semantics \X BagToSet(d.edges) :
                /\ sc[2].Package = fs.package /\ sc[2].Name = fs.func_name
                /\ HasPrefix(fs.flow_to, "return:")
                /\ arg \in argumentRows(d, sc[1].source)
                /\ flowFromMatches(fs, arg.properties)}}

\* Step 2: side-effect dfg, argument -> argument.
sideEffectDFG(d) ==
    {[source |-> q[3].target, target |-> q[4].target, kind |-> "dfg",
      properties |-> {<<"heuristic", TRUE>>, <<"side_effect", TRUE>>}] :
        q \in
            {q \in extCallSites(d) \X d.flow_semantics \X BagToSet(d.edges) \X BagToSet(d.edges) :
                /\ q[1][2].Package = q[2].package /\ q[1][2].Name = q[2].func_name
                /\ HasPrefix(q[2].flow_from, "arg:") /\ HasPrefix(q[2].flow_to, "arg:")
                /\ q[3] \in argumentRows(d, q[1][1].source)
                /\ flowFromMatches(q[2], q[3].properties)
                /\ q[4] \in argumentRows(d, q[1][1].source)
                /\ \E i \in Range(jsonExtract(q[4].properties, "index")) :
                      q[2].flow_to = "arg:" \o ToStr(i)}}

\* Step 3: fallback dfg, argument -> call, for callees without semantics.
fallbackDFG(d) ==
    {[source |-> arg.target, target |-> sc[1].source, kind |-> "dfg",
      properties |-> {<<"heuristic", TRUE>>}] :
        <<sc, arg>> \in
            {<<sc, arg>> \in extCallSites(d) \X BagToSet(d.edges) :
                /\ arg \in argumentRows(d, sc[1].source)
                /\ ~\E fs \in d.flow_semantics :
                      sc[2].Package = fs.package /\ sc[2].Name = fs.func_name}}

\* The cleanup that looks at the source only.
orphanCleanupSourceOnly(d) ==
    LET ids == {n.ID : n \in d.nodes}
        keep == {r \in BagToSet(d.edges) : r.source \in ids}
    IN [d EXCEPT !.edges = [r \in keep |-> d.edges[r]]]

\* DELETE FROM edges WHERE source NOT IN (SELECT id FROM nodes)
\*                      OR target NOT IN (SELECT id FROM nodes)
orphanCleanup(d) ==
    LET ids == {n.ID : n \in d.nodes}
        keep == {r \in BagToSet(d.edges) : r.source \in ids /\ r.target \in ids}
    IN [d EXCEPT !.edges = [r \in keep |-> d.edges[r]]]

\* computeEOG step 1: argument i -> argument i + 1 of the same call.
eogConsecutive(d) ==
    {[source |-> p[1].target, target |-> p[2].target, kind |-> "eog", properties |-> {}] :
        p \in {p \in BagToSet(d.edges) \X BagToSet(d.edges) :
                 /\ p[1].kind = "argument" /\ p[2].kind = "argument"
                 /\ p[1].source = p[2].source
                 /\ \E i \in Range(jsonExtract(p[1].properties, "index")),
                       j \in Range(jsonExtract(p[2].properties, "index")) : j = i + 1}}

\* computeEOG step 2: the argument of maximal index -> the call.
eogFinal(d) ==
    {[source |-> e.target, target |-> e.source, kind |-> "eog",
      properties |-> {<<"final", TRUE>>}] :
        e \in {e \in BagToSet(d.edges) :
                 /\ e.kind = "argument"
                 /\ \E i \in Range(jsonExtract(e.properties, "index")) :
                       \A e2 \in argumentRows(d, e.source) :
                           \A j \in Range(jsonExtract(e2.properties, "index")) : j <= i}}

-----------------------------------------------------------------------------
(* Specification SpecDB: WriteDB on the store of a package whose function  *)
(* H contains one call,  F(g(), a, nil)  on line 3 of p/a.go, for          *)
(* every callee F of DbCallees and every choice of the edges the earlier   *)
(* phases emitted for the call.                                            *)

DbCall == Node(StmtID("p", "a.go", 3, 7, "call"), "call", "F", 3, 7, NoProps)
DbArgCall == Node(StmtID("p", "a.go", 3, 9, "call"), "call", "g", 3, 9, NoProps)
DbArgIdent == Node(StmtID("p", "a.go", 3, 13, "identifier"), "identifier", "a", 3, 13, NoProps)
\* exprNodeID names the identifier nil; visitIdent makes no node for it
\* (its object is a *types.Nil).
DbNilArgID == StmtID("p", "a.go", 3, 16, "identifier")

\* The callees: three external functions with seeded flow semantics, one
\* without, and a function of the module.
DbCallees ==
    { stubNode(SsaFunc("fmt.Sprintf", "Sprintf", "fmt", NoSsaPos, <<>>, 1)),
      stubNode(SsaFunc("strings.Replace", "Replace", "strings", NoSsaPos, <<>>, 1)),
      stubNode(SsaFunc("encoding/json.Unmarshal", "Unmarshal", "encoding/json", NoSsaPos, <<>>, 1)),
      stubNode(FnLibF),
      Node(FuncID("p", "", "B", "a.go", 10, 1), "function", "B", 10, 1, NoProps) }

\* The edges the visitor and the SSA phases can emit for the call, in the
\* order of the phases: the argument edges (visitCallExpr), the dfg edge of
\* g()'s value into the call (ExtractCFGAndDFG), the call_site edge
\* (BuildCallGraph).
DbEdges(callee) ==
    << Edge(DbCall.ID, DbArgCall.ID, "argument", {<<"index", 0>>}),
       Edge(DbCall.ID, DbArgIdent.ID, "argument", {<<"index", 1>>}),
       Edge(DbCall.ID, DbNilArgID, "argument", {<<"index", 2>>}),
       Edge(DbArgCall.ID, DbCall.ID, "dfg", NoProps),
       Edge(DbCall.ID, callee.ID, "call_site", NoProps) >>

RECURSIVE addNodes(_, _, _)
addNodes(g, nodes, i) ==
    IF i > Len(nodes) THEN g ELSE addNodes(AddNode(g, nodes[i]), nodes, i + 1)

RECURSIVE addEdges(_, _, _, _)
addEdges(g, edges, chosen, i) ==
    IF i > Len(edges) THEN g
    ELSE addEdges(IF i \in chosen THEN AddEdge(g, edges[i]) ELSE g, edges, chosen, i + 1)

\* The store run() hands to WriteDB.
DbStore(callee, chosen) ==
    addEdges(addNodes(NewCPG, <<DbCall, DbArgCall, DbArgIdent, callee>>, 1),
             DbEdges(callee), chosen, 1)

InitDB ==
    /\ \E callee \in DbCallees, chosen \in SUBSET (1..5) : cpg = DbStore(callee, chosen)
    /\ log = <<>>
    /\ pc = "flush"
    /\ Idle

\* endFn of a transaction that commits whatever *errp holds.
endFnAlwaysCommits(committed, working, err) == working

\* The endFn sqlitex.ImmediateTransaction returns, called as endFn(&err):
\* COMMIT when err is nil (""), ROLLBACK otherwise.  committed is the
\* database before BEGIN, working the one the transaction has built.
endFn(committed, working, err) == IF err = "" THEN working ELSE committed

\* The inserts of the bulk transaction in their order.
BulkStages == <<"insert node", "insert edge", "insert source", "insert metric">>

\* The transaction's view of the database when insert number stage fails
\* after j of its rows: the earlier inserts are complete.
bulkInsertUpTo(d, g, stage, j) ==
    [d EXCEPT
        !.nodes = insertNodes(@, SubSeq(g.Nodes, 1, IF stage > 1 THEN Len(g.Nodes) ELSE j), 1),
        !.edges = insertEdges(@, SubSeq(g.Edges, 1,
                                        CASE stage > 2 -> Len(g.Edges)
                                          [] stage = 2 -> j
                                          [] OTHER -> 0), 1),
        !.sources = IF stage > 3 THEN g.Sources ELSE @]

\* The rows insert number stage goes through.
BulkRows(g, stage) ==
    CASE stage = 1 -> Len(g.Nodes)
      [] stage = 2 -> Len(g.Edges)
      [] stage = 3 -> Cardinality(DOMAIN g.Sources)
      [] OTHER -> Cardinality(DOMAIN g.Metrics)

\* createTables and the bulk insert in one transaction, committed by
\* endFn(&err) with err nil.
BulkInsert ==
    /\ pc = "flush"
    /\ db' = endFn(createTables,
                   [createTables EXCEPT
                      !.nodes = insertNodes(@, cpg.Nodes, 1),
                      !.edges = insertEdges(@, cpg.Edges, 1),
                      !.sources = cpg.Sources,
                      !.metrics = cpg.Metrics],
                   "")
    /\ pc' = "inserted"
    /\ UNCHANGED <<cpg, log, vta, pending, stubs, fn, input, defLookup, posLookup, funcLookup>>

\* createFlowSemantics and the three heuristic dfg passes.
HeuristicDFG ==
    /\ pc = "inserted"
    /\ \E d0 \in {[db EXCEPT !.flow_semantics = FlowSemantics]} :
       \E d1 \in {[d0 EXCEPT !.edges = insertOrIgnoreEdges(@, preciseDFG(d0))]} :
       \E d2 \in {[d1 EXCEPT !.edges = insertOrIgnoreEdges(@, sideEffectDFG(d1))]} :
          db' = [d2 EXCEPT !.edges = insertOrIgnoreEdges(@, fallbackDFG(d2))]
    /\ pc' = "heuristic"
    /\ UNCHANGED <<cpg, log, vta, pending, stubs, fn, input, defLookup, posLookup, funcLookup>>

\* The orphan cleanup (createIndexes changes no row).
OrphanCleanup ==
    /\ pc = "heuristic"
    /\ db' = orphanCleanup(db)
    /\ pc' = "clean"
    /\ UNCHANGED <<cpg, log, vta, pending, stubs, fn, input, defLookup, posLookup, funcLookup>>

\* computeEOG: both statements.
ComputeEOG ==
    /\ pc = "clean"
    /\ \E d1 \in {[db EXCEPT !.edges = insertOrIgnoreEdges(@, eogConsecutive(db))]} :
          db' = [d1 EXCEPT !.edges = insertOrIgnoreEdges(@, eogFinal(d1))]
    /\ pc' = "eog"
    /\ UNCHANGED <<cpg, log, vta, pending, stubs, fn, input, defLookup, posLookup, funcLookup>>

\* The remaining passes of WriteDB write neither nodes nor edges; WriteDB
\* returns nil.
WriteDBReturns ==
    /\ pc = "eog"
    /\ pc' = "done"
    /\ UNCHANGED <<cpg, log, vta, pending, stubs, fn, input, defLookup, db, posLookup, funcLookup>>

\* A statement fails and WriteDB returns its error.
WriteDBFails ==
    /\ pc \in {"flush", "inserted", "heuristic", "clean", "eog"}
    /\ pc' = "failed"
    /\ UNCHANGED <<cpg, log, vta, pending, stubs, fn, input, defLookup, db, posLookup, funcLookup>>

\* An insert of the bulk transaction fails, in Prepare (j = 0) or on row
\* j + 1: endFn(&err) with the error, and WriteDB returns it (kept in log).
BulkInsertFails(stage, j) ==
    /\ pc = "flush"
    /\ j <= IF BulkRows(cpg, stage) = 0 THEN 0 ELSE BulkRows(cpg, stage) - 1
    /\ db' = endFn(createTables, bulkInsertUpTo(createTables, cpg, stage, j), BulkStages[stage])
    /\ log' = <<[op |-> "WriteDB", err |-> BulkStages[stage]]>>
    /\ pc' = "bulk_failed"
    /\ UNCHANGED <<cpg, vta, pending, stubs, fn, input, defLookup, posLookup, funcLookup>>

NextDB ==
    \/ BulkInsert
    \/ \E stage \in 1..Len(BulkStages), j \in 0..4 : BulkInsertFails(stage, j)
    \/ HeuristicDFG
    \/ OrphanCleanup
    \/ ComputeEOG
    \/ WriteDBReturns
    \/ WriteDBFails

SpecDB == InitDB /\ [][NextDB]_vars

DbNodeIDs == {n.ID : n \in db.nodes}

\* C4: when WriteDB has returned nil, every row of edges, the heuristic dfg
\* rows and the eog rows included, has its source and its target among the
\* ids of the nodes table.
C4_EdgesHaveNodes ==
    pc = "done" =>
        \A r \in BagToSet(db.edges) : r.source \in DbNodeIDs /\ r.target \in DbNodeIDs

\* WriteDB returned nil on a store that had an edge to a missing node; the
\* table holds a heuristic dfg row and an eog row.
C4_Witness ==
    /\ pc = "done"
    /\ \E e \in EdgeSet(cpg) : e.Target \notin NodeIDs(cpg)
    /\ \E r \in BagToSet(db.edges) : r.kind = "dfg" /\ HasProp(r.properties, "heuristic")
    /\ \E r \in BagToSet(db.edges) : r.kind = "eog"

\* C5: when WriteDB has returned nil, no two rows of edges have the same
\* (source, target, kind).
C5_EdgeRowsUnique ==
    pc = "done" =>
        /\ \A r \in BagToSet(db.edges) : CopiesIn(r, db.edges) = 1
        /\ \A r1 \in BagToSet(db.edges), r2 \in BagToSet(db.edges) :
              (r1.source = r2.source /\ r1.target = r2.target /\ r1.kind = r2.kind) => r1 = r2

\* The arguments of the call F(g(), a, nil), in order, as exprNodeID names
\* them.
DbArgs == <<DbArgCall.ID, DbArgIdent.ID, DbNilArgID>>

\* The store holds the argument edges visitCallExpr emits for the call.
DbAllArgumentEdges ==
    \A i \in 1..Len(DbArgs) :
        Edge(DbCall.ID, DbArgs[i], "argument", {<<"index", i - 1>>}) \in EdgeSet(cpg)

\* The eog rows with (final = TRUE) or without the final property.
DbEogRows(final) ==
    {r \in BagToSet(db.edges) : r.kind = "eog" /\ HasProp(r.properties, "final") = final}

\* C15: after WriteDB, the call with its n = 3 arguments has exactly n - 1
\* eog rows without final, argument i -> argument i + 1, and exactly one
\* eog row with final = true, from argument n - 1 to the call node.
C15_EogLaw ==
    (pc = "done" /\ DbAllArgumentEdges) =>
        /\ DbEogRows(FALSE) =
              {[source |-> DbArgs[i], target |-> DbArgs[i + 1], kind |-> "eog",
                properties |-> NoProps] : i \in 1..(Len(DbArgs) - 1)}
        /\ DbEogRows(TRUE) =
              {[source |-> DbArgs[Len(DbArgs)], target |-> DbCall.ID, kind |-> "eog",
                properties |-> {<<"final", TRUE>>}]}
        /\ \A r \in DbEogRows(FALSE) \cup DbEogRows(TRUE) : CopiesIn(r, db.edges) = 1

\* C17: when an insert of nodes, edges, sources or metrics fails inside the
\* bulk transaction, WriteDB rolls back, so that no node, edge, source or
\* metric row of the run is committed; no derivation pass runs afterwards
\* (no flow semantics, no later step of WriteDB), and the error it returns
\* is not nil.
C17_BulkFailureRollsBack ==
    pc = "bulk_failed" =>
        /\ db.nodes = {} /\ db.edges = EmptyBag
        /\ db.sources = <<>> /\ db.metrics = <<>>
        /\ db.flow_semantics = {}
        /\ ~ENABLED NextDB
        /\ log # <<>> /\ log[Len(log)].err # ""

\* insertEdges failed on its second row, after insertNodes had inserted
\* every node of the store.
C17_Witness ==
    /\ pc = "bulk_failed"
    /\ log = <<[op |-> "WriteDB", err |-> "insert edge"]>>
    /\ Len(cpg.Nodes) > 0
    /\ Len(cpg.Edges) >= 2

-----------------------------------------------------------------------------
(* ExtractTypeRelationships: implements, embeds and satisfies_method edges. *)
(* The package p of the primary module declares, in p/ty.go,                *)
(*                                                                          *)
(*    3  type I interface { A(); B() }      (any subset of the methods)     *)
(*    4  type E struct{}                                                    *)
(*    5  type T struct{ E }                 (with or without the field)     *)
(*    6  func (e E) A() {}      7  func (e *E) B() {}                       *)
(*    8  func (t T) A() {}      9  func (t *T) B() {}                       *)
(*                                                                          *)
(* where each method is absent, has a value receiver or a pointer receiver. *)

\* Interface.Method(i) and Scope.Names() come sorted by name.
TyMethodNames == <<"A", "B">>
TyConcretes == <<"E", "T">>
TyRecvKinds == {"none", "value", "pointer"}

\* The declarations: the methods of I, the receiver kind of each method of
\* E and T, and whether T embeds E.
TyUniverses ==
    [iface : SUBSET Range(TyMethodNames),
     recv : [Range(TyConcretes) -> [Range(TyMethodNames) -> TyRecvKinds]],
     embeds : BOOLEAN]

TyFile == "/w/m/p/ty.go"
TyTypePos(t) == SsaPos(TyFile, CASE t = "I" -> 3 [] t = "E" -> 4 [] OTHER -> 5, 6)
TyIfaceMethodPos(m) == SsaPos(TyFile, 3, IF m = "A" THEN 20 ELSE 25)
TyMethodLine(t, m) == (IF t = "E" THEN 6 ELSE 8) + (IF m = "A" THEN 0 ELSE 1)
\* types.Func.Pos() of a method: its name, after "func (e E) " or "func (e *E) ".
TyMethodPos(u, t, m) ==
    SsaPos(TyFile, TyMethodLine(t, m), IF u.recv[t][m] = "value" THEN 12 ELSE 13)

\* The ids the visitor gives the declarations.
TyTypeID(t) == StmtID("p", "ty.go", TyTypePos(t).Line, 6, "type_decl")
TyIfaceMethodID(m) == StmtID("p", "ty.go", 3, TyIfaceMethodPos(m).Column, "field")
TyMethodID(u, t, m) ==
    FuncID("p", IF u.recv[t][m] = "value" THEN t ELSE "*" \o t, m, "ty.go",
           TyMethodLine(t, m), 1)

\* The declared methods, as <<type, method>>, in source order.
TyDeclared(u) ==
    SelectSeq(<< <<"E", "A">>, <<"E", "B">>, <<"T", "A">>, <<"T", "B">> >>,
              LAMBDA d : u.recv[d[1]][d[2]] # "none")

\* PosLookup after WalkAST: visitTypeSpec registers a type at its name,
\* addNodeAndEdge an interface method's field at its name, visitFuncDecl a
\* method at its name.
RECURSIVE TyMethodEntries(_, _, _, _)
TyMethodEntries(pl, u, ds, k) ==
    IF k > Len(ds) THEN pl
    ELSE LET p == TyMethodPos(u, ds[k][1], ds[k][2])
         IN TyMethodEntries(
                PosLookupSet(pl, "p/ty.go", p.Line, p.Column, TyMethodID(u, ds[k][1], ds[k][2])),
                u, ds, k + 1)

RECURSIVE TyIfaceEntries(_, _, _)
TyIfaceEntries(pl, u, k) ==
    IF k > Len(TyMethodNames) THEN pl
    ELSE LET m == TyMethodNames[k]
         IN TyIfaceEntries(
                IF m \in u.iface
                THEN PosLookupSet(pl, "p/ty.go", 3, TyIfaceMethodPos(m).Column, TyIfaceMethodID(m))
                ELSE pl, u, k + 1)

TyPosLookup(u) ==
    LET types == PosLookupSet(PosLookupSet(PosLookupSet(<<>>,
                     "p/ty.go", 3, 6, TyTypeID("I")),
                     "p/ty.go", 4, 6, TyTypeID("E")),
                     "p/ty.go", 5, 6, TyTypeID("T"))
    IN TyMethodEntries(TyIfaceEntries(types, u, 1), u, TyDeclared(u), 1)

\* The nodes WalkAST left for the declarations.
RECURSIVE TyMethodNodes(_, _, _, _)
TyMethodNodes(g, u, ds, k) ==
    IF k > Len(ds) THEN g
    ELSE TyMethodNodes(
             AddNode(g, Node(TyMethodID(u, ds[k][1], ds[k][2]), "function",
                             (IF u.recv[ds[k][1]][ds[k][2]] = "value" THEN ds[k][1]
                              ELSE "*" \o ds[k][1]) \o "." \o ds[k][2],
                             TyMethodLine(ds[k][1], ds[k][2]), 1, NoProps)),
             u, ds, k + 1)

RECURSIVE TyIfaceNodes(_, _, _)
TyIfaceNodes(g, u, k) ==
    IF k > Len(TyMethodNames) THEN g
    ELSE LET m == TyMethodNames[k]
         IN TyIfaceNodes(
                IF m \in u.iface
                THEN AddNode(g, Node(TyIfaceMethodID(m), "field", m, 3,
                                     TyIfaceMethodPos(m).Column, NoProps))
                ELSE g, u, k + 1)

TyStore(u) ==
    LET g1 == AddNode(NewCPG, Node(TyTypeID("I"), "type_decl", "I", 3, 6, NoProps))
        g2 == AddNode(TyIfaceNodes(g1, u, 1), Node(TyTypeID("E"), "type_decl", "E", 4, 6, NoProps))
        g3 == AddNode(g2, Node(TyTypeID("T"), "type_decl", "T", 5, 6, NoProps))
    IN TyMethodNodes(g3, u, TyDeclared(u), 1)

\* go/types: the method set of t (ptr: of *t).  A method declared on t
\* hides the one of the embedded field, also when its pointer receiver keeps
\* it out of the set of t; a method of the field E is in the set when its
\* receiver is a value or the base is a pointer.  Lookup gives the declaring
\* type and len(sel.Index()), NoSel for nil.
NoSel == [owner |-> "", indexLen |-> 0]
MethodSetLookup(u, t, ptr, m) ==
    IF u.recv[t][m] # "none"
    THEN IF u.recv[t][m] = "value" \/ ptr THEN [owner |-> t, indexLen |-> 1] ELSE NoSel
    ELSE IF t = "T" /\ u.embeds /\ u.recv["E"][m] # "none" /\ (u.recv["E"][m] = "value" \/ ptr)
    THEN [owner |-> "E", indexLen |-> 2]
    ELSE NoSel

\* types.Implements(t, I), types.Implements(*t, I)
Implements(u, t, ptr) == \A m \in u.iface : MethodSetLookup(u, t, ptr, m) # NoSel

\* The node id PosLookup has for an object's position.
typesNodeID(p, pl) ==
    IF RelFile(p.Filename) = "" THEN "" ELSE LookupGet(pl, RelFile(p.Filename), p.Line, p.Column)

\* The methods of the interface in Method(i) order.
TyIfaceMethods(u) == SelectSeq(TyMethodNames, LAMBDA m : m \in u.iface)

\* emitSatisfiesMethod, the loop over the interface methods for one base;
\* the result is <<store, localFound>>.
RECURSIVE satisfiesLoop(_, _, _, _, _, _, _)
satisfiesLoop(g, u, t, ptr, i, found, pl) ==
    IF i >= Len(TyIfaceMethods(u)) THEN <<g, found>>
    ELSE LET m == TyIfaceMethods(u)[i + 1]
             sel == MethodSetLookup(u, t, ptr, m)
         IN IF sel = NoSel \/ sel.indexLen # 1
            THEN satisfiesLoop(g, u, t, ptr, i + 1, found, pl)
            ELSE LET cmID == typesNodeID(TyMethodPos(u, sel.owner, m), pl)
                     imID == typesNodeID(TyIfaceMethodPos(m), pl)
                 IN IF cmID # "" /\ imID # ""
                    THEN satisfiesLoop(AddEdge(g, Edge(cmID, imID, "satisfies_method", NoProps)),
                                       u, t, ptr, i + 1, found + 1, pl)
                    ELSE satisfiesLoop(g, u, t, ptr, i + 1, found, pl)

\* emitSatisfiesMethod: base T, then *T unless T gave an edge.
emitSatisfiesMethod(g, u, t, pl) ==
    LET r == satisfiesLoop(g, u, t, FALSE, 0, 0, pl)
    IN IF r[2] > 0 THEN r[1] ELSE satisfiesLoop(g, u, t, TRUE, 0, 0, pl)[1]

\* The body of the loop over the concrete types: implements edges to the
\* interface, then the embeds edges of a struct.
typeRelationsOf(g, u, t, pl) ==
    LET cid == typesNodeID(TyTypePos(t), pl)
        iid == typesNodeID(TyTypePos("I"), pl)
        g1 == IF u.iface # {} /\ (Implements(u, t, FALSE) \/ Implements(u, t, TRUE))
              THEN emitSatisfiesMethod(AddEdge(g, Edge(cid, iid, "implements", NoProps)),
                                       u, t, pl)
              ELSE g
        embID == typesNodeID(TyTypePos("E"), pl)
    IN IF t = "T" /\ u.embeds /\ embID # ""
       THEN AddEdge(g1, Edge(cid, embID, "embeds", NoProps))
       ELSE g1

\* ExtractTypeRelationships (the package has no alias).
RECURSIVE extractTypeRelationships(_, _, _, _)
extractTypeRelationships(g, u, k, pl) ==
    IF k > Len(TyConcretes) THEN g
    ELSE extractTypeRelationships(typeRelationsOf(g, u, TyConcretes[k], pl), u, k + 1, pl)

-----------------------------------------------------------------------------
(* Specification SpecTypes: ExtractTypeRelationships on the store and the  *)
(* PosLookup WalkAST left for the declarations.                            *)

InitTypes ==
    /\ input \in TyUniverses
    /\ cpg = TyStore(input)
    /\ posLookup = TyPosLookup(input)
    /\ log = <<>>
    /\ pc = "types"
    /\ vta = {} /\ pending = {} /\ stubs = {} /\ fn = <<>> /\ db = <<>>
    /\ funcLookup = <<>> /\ defLookup = <<>>

\* Phase 6: ExtractTypeRelationships
ExtractTypeRelationships ==
    /\ pc = "types"
    /\ cpg' = extractTypeRelationships(cpg, input, 1, posLookup)
    /\ pc' = "types_done"
    /\ UNCHANGED <<log, vta, pending, stubs, fn, input, defLookup, db, posLookup, funcLookup>>

NextTypes == ExtractTypeRelationships

SpecTypes == InitTypes /\ [][NextTypes]_vars

\* The concrete type with node id id.
TyOfID(id) == CHOOSE t \in Range(TyConcretes) : TyTypeID(t) = id

\* The ids of the methods named m in the method set of t or of *t.
TyMethodSetIDs(u, t, m) ==
    {TyMethodID(u, s.owner, m) : s \in {MethodSetLookup(u, t, TRUE, m)} \ {NoSel}}

\* C13: for every implements edge from a concrete type T to the interface,
\* each method of the interface is the target of exactly one
\* satisfies_method edge whose source is a method in the method set of T or
\* of *T.
C13_SatisfiesEachMethod ==
    pc = "types_done" =>
        \A e \in EdgeSet(cpg) :
            e.Kind = "implements" =>
                \A m \in input.iface :
                    Cardinality({d \in EdgeSet(cpg) :
                                    /\ d.Kind = "satisfies_method"
                                    /\ d.Target = TyIfaceMethodID(m)
                                    /\ d.Source \in TyMethodSetIDs(input, TyOfID(e.Source), m)}) = 1

-----------------------------------------------------------------------------
(* Specification SpecDefer: WalkAST on a package d of the primary module   *)
(* whose file d/d.go is                                                    *)
(*                                                                         *)
(*    3  func E() {}                                                       *)
(*    5  func D(c bool) {                                                  *)
(*   11      <statement 1>                                                 *)
(*   12      <statement 2> ...                                             *)
(*   20  }                                                                 *)
(*                                                                         *)
(* with up to MaxStmts statements, each one of                             *)
(*    call      E()                                                        *)
(*    defer     defer E()                                                  *)
(*    deferlit1 defer func() { defer E() }()                               *)
(*    deferlit2 defer func() { defer E(); defer E() }()                    *)
(*    ifdefer   if c { defer E() }                                         *)
(*    lit2      func() { defer E(); defer E() }()                          *)

MaxStmts == 3

DfStmtKinds == {"call", "defer", "deferlit1", "deferlit2", "ifdefer", "lit2"}

DfBodies == UNION {[1..n -> DfStmtKinds] : n \in 0..MaxStmts}

DfCallE(line, col) ==
    CallExpr(Ident(<<line, col>>, "E", "d.E", "func"), <<line, col + 1>>, <<>>, FALSE)

DfDeferE(line, col) == DeferStmt(<<line, col>>, DfCallE(line, col + 6))

\* func() { defer E(); ... } with n defers, called at once.
DfLitCall(line, col, n) ==
    CallExpr(FuncLit(<<line, col>>, <<>>, <<>>,
                     BlockStmt(<<line, col + 7>>,
                               [i \in 1..n |-> DfDeferE(line, col + 9 + 11 * (i - 1))]),
                     line),
             <<line, col + 40>>, <<>>, FALSE)

DfStmt(kind, line) ==
    CASE kind = "call" -> ExprStmt(DfCallE(line, 2))
      [] kind = "defer" -> DfDeferE(line, 2)
      [] kind = "deferlit1" -> DeferStmt(<<line, 2>>, DfLitCall(line, 8, 1))
      [] kind = "deferlit2" -> DeferStmt(<<line, 2>>, DfLitCall(line, 8, 2))
      [] kind = "ifdefer" ->
             IfStmt(<<line, 2>>, Ident(<<line, 5>>, "c", "D.c", "var"),
                    BlockStmt(<<line, 7>>, <<DfDeferE(line, 9)>>))
      [] kind = "lit2" -> ExprStmt(DfLitCall(line, 2, 2))

DfDeclE ==
    FuncDecl(<<3, 1>>, "", Name("E", <<3, 6>>, "d.E"), <<>>, <<>>, <<>>,
             BlockStmt(<<3, 10>>, <<>>), 3)

DfDeclD(body) ==
    FuncDecl(<<5, 1>>, "", Name("D", <<5, 6>>, "d.D"), <<>>,
             << Field(<<Name("c", <<5, 8>>, "D.c")>>, <<5, 8>>, "bool") >>, <<>>,
             BlockStmt(<<5, 16>>, [k \in 1..Len(body) |-> DfStmt(body[k], 10 + k)]), 20)

DfPkgs(body) ==
    << [PkgPath |-> "ex.com/m/d", Name |-> "d", Imports |-> {},
        Files |-> << [absFile |-> "/w/m/d/d.go", readable |-> TRUE, content |-> "d.go text",
                      endLine |-> 20,
                      syntax |-> File(Ident(<<1, 9>>, "d", "", ""),
                                      <<DfDeclE, DfDeclD(body)>>)] >>] >>

InitDefer ==
    /\ input \in DfBodies
    /\ cpg = NewCPG
    /\ log = <<>>
    /\ pc = "start"
    /\ vta = {} /\ pending = {} /\ stubs = {} /\ fn = <<>> /\ db = <<>>
    /\ posLookup = <<>> /\ funcLookup = <<>> /\ defLookup = <<>>

\* Phase 2: WalkAST on the package.
WalkDefers ==
    /\ pc = "start"
    /\ \E w \in {walkPkgs([cpg |-> cpg, posLookup |-> <<>>, funcLookup |-> <<>>,
                           defLookup |-> <<>>, initIDs |-> <<>>], DfPkgs(input), 1)} :
          /\ cpg' = w.cpg
          /\ posLookup' = w.posLookup
          /\ funcLookup' = w.funcLookup
          /\ defLookup' = w.defLookup
    /\ pc' = "ast"
    /\ UNCHANGED <<log, vta, pending, stubs, fn, input, db>>

NextDefer == WalkDefers

SpecDefer == InitDefer /\ [][NextDefer]_vars

\* The defer nodes of function id: those whose ParentFunction it is.
DefersOf(g, id) == {n \in NodeSet(g) : n.Kind = "defer" /\ n.ParentFunction = id}

\* The place of a defer among the defers D of its function, in source
\* order: 1 for the first.
DeferRank(D, d) ==
    1 + Cardinality({x \in D : x.Line < d.Line \/ (x.Line = d.Line /\ x.Col < d.Col)})

\* The chain the defers D call for: D(i+1) -> D(i) with exec_order n - i.
DeferChain(D) ==
    {Edge(a.ID, b.ID, "defer_order", {<<"exec_order", Cardinality(D) - DeferRank(D, b)>>}) :
        <<a, b>> \in {p \in D \X D : DeferRank(D, p[1]) = DeferRank(D, p[2]) + 1}}

\* C14: for each function or function literal whose own body holds the
\* defers D1..Dn in source order, the defer_order edges are exactly
\* D(i+1) -> D(i) for 1 <= i < n, the edge leaving D(i+1) carries
\* exec_order n - i, and D1 has no outgoing defer_order edge.
C14_DeferChain ==
    pc = "ast" =>
        {e \in EdgeSet(cpg) : e.Kind = "defer_order"}
            = UNION {DeferChain(DefersOf(cpg, f.ID)) : f \in {n \in NodeSet(cpg) : n.Kind = "function"}}

\* A function with three defers of its own around a literal that has two.
C14_Witness ==
    /\ pc = "ast"
    /\ \E f \in NodeSet(cpg), l \in NodeSet(cpg) :
          /\ f.Kind = "function" /\ l.Kind = "function"
          /\ l.ParentFunction = f.ID
          /\ Cardinality(DefersOf(cpg, f.ID)) = 3
          /\ Cardinality(DefersOf(cpg, l.ID)) = 2
          /\ \E e \in EdgeSet(cpg) :
                e.Kind = "defer_order" /\ PropOf(e.Properties, "exec_order") = 2

-----------------------------------------------------------------------------
(* Specification SpecLookup: the visitor calls Set on the three indices in *)
(* any order.                                                              *)

MaxSets == 3

LkFiles == {"a.go"}
LkLines == {1, 2}
LkCols == {1}
LkIDs == {"n1", "n2"}
\* types.Object values; "" is nil.
LkObjs == {"", "o1", "o2"}

InitLookup ==
    /\ cpg = NewCPG
    /\ log = <<>>
    /\ pc = "lookup"
    /\ Idle

\* posLookup.Set(file, line, col, id)
DoPosLookupSet(file, line, col, id) ==
    /\ Len(log) < MaxSets
    /\ posLookup' = PosLookupSet(posLookup, file, line, col, id)
    /\ log' = Append(log, [op |-> "PosLookup.Set", arg |-> <<posKey(file, line, col), id>>])
    /\ UNCHANGED <<cpg, pc, vta, pending, stubs, fn, input, defLookup, db, funcLookup>>

\* funcLookup.Set(file, line, col, id)
DoFuncLookupSet(file, line, col, id) ==
    /\ Len(log) < MaxSets
    /\ funcLookup' = FuncLookupSet(funcLookup, file, line, col, id)
    /\ log' = Append(log, [op |-> "FuncLookup.Set", arg |-> <<posKey(file, line, col), id>>])
    /\ UNCHANGED <<cpg, pc, vta, pending, stubs, fn, input, defLookup, db, posLookup>>

\* defLookup.Set(obj, id)
DoDefLookupSet(obj, id) ==
    /\ Len(log) < MaxSets
    /\ defLookup' = DefLookupSet(defLookup, obj, id)
    /\ log' = Append(log, [op |-> "DefLookup.Set", arg |-> <<obj, id>>])
    /\ UNCHANGED <<cpg, pc, vta, pending, stubs, fn, input, db, posLookup, funcLookup>>

NextLookup ==
    \/ \E f \in LkFiles, l \in LkLines, c \in LkCols, id \in LkIDs : DoPosLookupSet(f, l, c, id)
    \/ \E f \in LkFiles, l \in LkLines, c \in LkCols, id \in LkIDs : DoFuncLookupSet(f, l, c, id)
    \/ \E obj \in LkObjs, id \in LkIDs : DoDefLookupSet(obj, id)

SpecLookup == InitLookup /\ [][NextLookup]_vars

\* Every key the map m has keeps its id in the map m2.
KeepsMappings(m, m2) == \A k \in DOMAIN m : k \in DOMAIN m2 /\ m2[k] = m[k]

\* C16: for PosLookup, FuncLookup and DefLookup alike, a Set on a key that
\* is already mapped leaves the mapping as it is: Get keeps returning the
\* id of the first Set.
C16_SetFirstWins ==
    [][ /\ KeepsMappings(posLookup, posLookup')
        /\ KeepsMappings(funcLookup, funcLookup')
        /\ KeepsMappings(defLookup, defLookup') ]_vars

-----------------------------------------------------------------------------
(* ExtractChannelFlow: chan_flow edges from the MakeChan values of the SSA *)
(* form.  The analysed function f of c.go makes two channels,              *)
(*     t1 := make(chan int); t2 := make(chan int)                          *)
(* and then performs up to MaxChanOps sends and receives, statement i on   *)
(* line 10 + i, each on a channel value obtained in one of these ways:     *)
(*   t1, t2     the variable itself                                        *)
(*   phi        p := t1; if c { p = t2 }; then p                           *)
(*   ret_id     id(t1),    func id(c chan int) chan int { return c }       *)
(*   ret_fresh  fresh(t1), func fresh(c chan int) chan int                 *)
(*                              { return make(chan int) }                  *)
(*   param      inside h(t1), on h's parameter                             *)
(*   go         inside go g(t1), on g's parameter                          *)
(*   closure    q := t1; func() { ... q ... }(), on the captured q         *)
(*   loop       p := t1; for { if c { p = t2 } }, on p at the loop head:   *)
(*              two phis that refer to each other                          *)
(*   roundtrip  a := t1; a = a, on the loaded a: the load is stored back   *)
(*              to the address it was loaded from                          *)
(*   rec        inside r(t1), func r(c chan int) { ...; r(c) }, on r's     *)
(*              parameter                                                  *)

MaxChanOps == 2

ChVias == {"t1", "t2", "phi", "ret_id", "ret_fresh", "param", "go", "closure",
           "loop", "roundtrip", "rec"}

ChOps == [dir : {"send", "recv"}, via : ChVias]

ChPrograms == UNION {[1..n -> ChOps] : n \in 1..MaxChanOps}

ChFile == "/w/m/c.go"

\* An SSA instruction: name is the value it defines ("" for a non-value),
\* Ops its operands (Send: Chan, X; Store: Addr, Val; Call/Go: Args;
\* MakeClosure: Bindings; Phi: Edges; UnOp: X), Aux the UnOp operator or the
\* statically known callee / closure function, pos its position.
Instr(op, name, ops, aux, p) == [op |-> op, name |-> name, Ops |-> ops, Aux |-> aux, pos |-> p]

\* The send or receive of statement i on channel value x.
ChSite(i, dir, x) ==
    IF dir = "send"
    THEN Instr("Send", "", <<x, "0:int">>, "", <<10 + i, 5>>)
    ELSE Instr("UnOp", "rv" \o ToStr(i), <<x>>, "ARROW", <<10 + i, 5>>)

\* The instructions statement i adds to f.
ChInstrsOfF(i, o) ==
    LET k == ToStr(i)
    IN CASE o.via \in {"t1", "t2"} -> <<ChSite(i, o.dir, o.via)>>
         [] o.via = "phi" ->
              <<Instr("Phi", "phi" \o k, <<"t1", "t2">>, "", NoPos), ChSite(i, o.dir, "phi" \o k)>>
         [] o.via = "ret_id" ->
              <<Instr("Call", "rid" \o k, <<"t1">>, "id", <<10 + i, 3>>), ChSite(i, o.dir, "rid" \o k)>>
         [] o.via = "ret_fresh" ->
              <<Instr("Call", "rfr" \o k, <<"t1">>, "fresh", <<10 + i, 3>>),
                ChSite(i, o.dir, "rfr" \o k)>>
         [] o.via = "param" -> <<Instr("Call", "ch" \o k, <<"t1">>, "h" \o k, <<10 + i, 1>>)>>
         [] o.via = "go" -> <<Instr("Go", "", <<"t1">>, "g" \o k, <<10 + i, 1>>)>>
         [] o.via = "loop" ->
              <<Instr("Phi", "la" \o k, <<"t1", "lb" \o k>>, "", NoPos),
                Instr("Phi", "lb" \o k, <<"la" \o k, "t2">>, "", NoPos),
                ChSite(i, o.dir, "la" \o k)>>
         [] o.via = "roundtrip" ->
              <<Instr("Alloc", "a" \o k, <<>>, "", <<10 + i, 1>>),
                Instr("Store", "", <<"a" \o k, "t1">>, "", <<10 + i, 1>>),
                Instr("UnOp", "al" \o k, <<"a" \o k>>, "MUL", NoPos),
                Instr("Store", "", <<"a" \o k, "al" \o k>>, "", <<10 + i, 2>>),
                ChSite(i, o.dir, "al" \o k)>>
         [] o.via = "rec" -> <<Instr("Call", "rc" \o k, <<"t1">>, "r" \o k, <<10 + i, 1>>)>>
         [] OTHER ->
              <<Instr("Alloc", "q" \o k, <<>>, "", <<10 + i, 1>>),
                Instr("Store", "", <<"q" \o k, "t1">>, "", <<10 + i, 1>>),
                Instr("MakeClosure", "mk" \o k, <<"q" \o k>>, "lit" \o k, <<10 + i, 2>>),
                Instr("Call", "cl" \o k, <<>>, "", <<10 + i, 3>>)>>

ChanFunc(name, params, freeVars, instrs) ==
    [Name |-> name, Pkg |-> "ex.com/m", Synthetic |-> "", Params |-> params,
     FreeVars |-> freeVars, Instrs |-> instrs]

\* The functions statement i adds to the program.
ChFuncsOf(i, o) ==
    LET k == ToStr(i)
    IN CASE o.via = "param" ->
              <<ChanFunc("h" \o k, <<"h" \o k \o ".c">>, <<>>, <<ChSite(i, o.dir, "h" \o k \o ".c")>>)>>
         [] o.via = "go" ->
              <<ChanFunc("g" \o k, <<"g" \o k \o ".c">>, <<>>, <<ChSite(i, o.dir, "g" \o k \o ".c")>>)>>
         [] o.via = "closure" ->
              <<ChanFunc("lit" \o k, <<>>, <<"lit" \o k \o ".q">>,
                        <<Instr("UnOp", "ld" \o k, <<"lit" \o k \o ".q">>, "MUL", NoPos),
                          ChSite(i, o.dir, "ld" \o k)>>)>>
         [] o.via = "rec" ->
              <<ChanFunc("r" \o k, <<"r" \o k \o ".c">>, <<>>,
                        <<ChSite(i, o.dir, "r" \o k \o ".c"),
                          Instr("Call", "rr" \o k, <<"r" \o k \o ".c">>, "r" \o k,
                                <<10 + i, 9>>)>>)>>
         [] OTHER -> <<>>

RECURSIVE ChBodyOfF(_, _)
ChBodyOfF(prog, i) ==
    IF i > Len(prog) THEN <<>> ELSE ChInstrsOfF(i, prog[i]) \o ChBodyOfF(prog, i + 1)

RECURSIVE ChCallees(_, _)
ChCallees(prog, i) ==
    IF i > Len(prog) THEN <<>> ELSE ChFuncsOf(i, prog[i]) \o ChCallees(prog, i + 1)

\* ssaResult.AllFuncs of the program.
ChAllFuncs(prog) ==
    <<ChanFunc("f", <<>>, <<>>,
              <<Instr("MakeChan", "t1", <<>>, "", <<1, 8>>),
                Instr("MakeChan", "t2", <<>>, "", <<2, 8>>)>> \o ChBodyOfF(prog, 1)),
      ChanFunc("id", <<"id.c">>, <<>>, <<Instr("Return", "", <<"id.c">>, "", <<5, 3>>)>>),
      ChanFunc("fresh", <<"fresh.c">>, <<>>,
              <<Instr("MakeChan", "fresh.t0", <<>>, "", <<7, 12>>),
                Instr("Return", "", <<"fresh.t0">>, "", <<7, 3>>)>>)>>
    \o ChCallees(prog, 1)

\* The node WalkAST makes for the send statement (at its arrow) or the
\* receive expression (at its operator) of statement i.
ChSiteID(i, dir) ==
    StmtID("main", "c.go", 10 + i, 5, IF dir = "send" THEN "send" ELSE "unary_expr")

RECURSIVE ChWalked(_, _, _)
ChWalked(prog, i, w) ==
    IF i > Len(prog) THEN w
    ELSE ChWalked(prog, i + 1,
            [cpg |-> AddNode(w.cpg, Node(ChSiteID(i, prog[i].dir),
                                         IF prog[i].dir = "send" THEN "send" ELSE "unary_expr",
                                         IF prog[i].dir = "send" THEN "send" ELSE "<-",
                                         10 + i, 5, NoProps)),
             posLookup |-> PosLookupSet(w.posLookup, "c.go", 10 + i, 5,
                                        ChSiteID(i, prog[i].dir))])

\* Value.Referrers(): the instructions that have val as an operand.
RECURSIVE InstrsOf(_, _)
InstrsOf(funcs, k) ==
    IF k > Len(funcs) THEN <<>> ELSE funcs[k].Instrs \o InstrsOf(funcs, k + 1)

Referrers(funcs, val) == SelectSeq(InstrsOf(funcs, 1), LAMBDA inst : val \in Range(inst.Ops))

\* instrPos
instrPos(inst) ==
    IF inst.pos = NoPos \/ RelFile(ChFile) = "" THEN <<"", 0, 0>>
    ELSE <<RelFile(ChFile), inst.pos[1], inst.pos[2]>>

SsaFuncNamed(funcs, name) == CHOOSE f \in Range(funcs) : f.Name = name

\* The send or receive at inst, appended when the position resolves.
chanCollect(inst, pl, st, isSend) ==
    LET p == instrPos(inst)
        id == LookupGet(pl, p[1], p[2], p[3])
    IN IF p[1] = "" \/ id = "" THEN st
       ELSE IF isSend THEN [st EXCEPT !.sends = Append(@, id)]
       ELSE [st EXCEPT !.receives = Append(@, id)]

\* chanFollowCallArgs and the bindings loop of the MakeClosure case: follow
\* targets[i] (the callee's Params, the closure's FreeVars) for every
\* operand i that is val.  chanFollowRefs: st is [sends, receives,
\* visited], with the values whose referrers were gone through, in that
\* order, as expanded; chanRefsLoop is its loop over the referrers.
RECURSIVE chanFollowRefs(_, _, _, _)
RECURSIVE chanRefsLoop(_, _, _, _, _, _)
RECURSIVE chanFollowCallArgs(_, _, _, _, _, _, _)

chanFollowCallArgs(funcs, ops, targets, val, pl, i, st) ==
    IF i > Len(ops) THEN st
    ELSE chanFollowCallArgs(funcs, ops, targets, val, pl, i + 1,
            IF ops[i] = val /\ i <= Len(targets)
            THEN chanFollowRefs(funcs, targets[i], pl, st)
            ELSE st)

chanRefsLoop(funcs, val, pl, refs, k, st) ==
    IF k > Len(refs) THEN st
    ELSE LET inst == refs[k]
             \* common.Value is a *ssa.Function exactly when Aux names it
             callArgs == IF inst.Aux = "" THEN st
                         ELSE chanFollowCallArgs(funcs, inst.Ops,
                                  SsaFuncNamed(funcs, inst.Aux).Params, val, pl, 1, st)
             st2 ==
               CASE inst.op = "Send" ->
                      IF inst.Ops[1] = val THEN chanCollect(inst, pl, st, TRUE) ELSE st
                 [] inst.op = "UnOp" ->
                      IF inst.Aux = "ARROW" /\ inst.Ops[1] = val
                      THEN chanCollect(inst, pl, st, FALSE)
                      ELSE IF inst.Aux = "MUL"
                      THEN chanFollowRefs(funcs, inst.name, pl, st)
                      ELSE st
                 [] inst.op = "Call" -> chanFollowRefs(funcs, inst.name, pl, callArgs)
                 [] inst.op \in {"Go", "Defer"} -> callArgs
                 [] inst.op = "Phi" -> chanFollowRefs(funcs, inst.name, pl, st)
                 [] inst.op = "MakeClosure" ->
                      IF inst.Aux = "" THEN st
                      ELSE chanFollowCallArgs(funcs, inst.Ops,
                               SsaFuncNamed(funcs, inst.Aux).FreeVars, val, pl, 1, st)
                 [] inst.op = "Store" ->
                      IF inst.Ops[2] = val THEN chanFollowRefs(funcs, inst.Ops[1], pl, st)
                      ELSE st
                 [] OTHER ->
                      IF inst.name # "" THEN chanFollowRefs(funcs, inst.name, pl, st) ELSE st
         IN chanRefsLoop(funcs, val, pl, refs, k + 1, st2)

\* chanFollowRefs that goes through the referrers of a visited value again
\* the first time it meets one.
chanFollowRefsRevisit(funcs, val, pl, st) ==
    IF val \in st.visited /\ Len(st.expanded) > Cardinality(st.visited) THEN st
    ELSE chanRefsLoop(funcs, val, pl, Referrers(funcs, val), 1,
                      [st EXCEPT !.visited = @ \cup {val}, !.expanded = Append(@, val)])

chanFollowRefs(funcs, val, pl, st) ==
    IF val \in st.visited THEN st
    ELSE chanRefsLoop(funcs, val, pl, Referrers(funcs, val), 1,
                      [st EXCEPT !.visited = @ \cup {val}, !.expanded = Append(@, val)])

\* The chan_flow edges of one MakeChan: every (send, receive) pair.
RECURSIVE chanFlowPairs(_, _, _, _, _)
chanFlowPairs(g, sends, receives, i, j) ==
    IF i > Len(sends) THEN g
    ELSE IF j > Len(receives) THEN chanFlowPairs(g, sends, receives, i + 1, 1)
    ELSE chanFlowPairs(AddEdge(g, Edge(sends[i], receives[j], "chan_flow", NoProps)),
                       sends, receives, i, j + 1)

\* ExtractChannelFlow: the loops over the functions (k) and their
\* instructions (n).
RECURSIVE extractChannelFlow(_, _, _, _, _)
extractChannelFlow(g, funcs, pl, k, n) ==
    IF k > Len(funcs) THEN g
    ELSE IF \/ funcs[k].Pkg = "" \/ funcs[k].Synthetic # ""
            \/ ~IsKnownPkg(funcs[k].Pkg)
            \/ n > Len(funcs[k].Instrs)
    THEN extractChannelFlow(g, funcs, pl, k + 1, 1)
    ELSE IF funcs[k].Instrs[n].op # "MakeChan"
    THEN extractChannelFlow(g, funcs, pl, k, n + 1)
    ELSE LET st == chanFollowRefs(funcs, funcs[k].Instrs[n].name, pl,
                                  [sends |-> <<>>, receives |-> <<>>, visited |-> {},
                                   expanded |-> <<>>])
         IN extractChannelFlow(chanFlowPairs(g, st.sends, st.receives, 1, 1),
                               funcs, pl, k, n + 1)

\* The walks of ExtractChannelFlow: for every MakeChan instruction of the
\* functions it goes through, the channel and what chanFollowRefs left.
chanWalks(funcs, pl) ==
    LET makes == SelectSeq(InstrsOf(SelectSeq(funcs, LAMBDA f : /\ f.Pkg # ""
                                                                /\ f.Synthetic = ""
                                                                /\ IsKnownPkg(f.Pkg)), 1),
                           LAMBDA inst : inst.op = "MakeChan")
    IN  [i \in 1..Len(makes) |->
            [chan |-> makes[i].name,
             st |-> chanFollowRefs(funcs, makes[i].name, pl,
                                   [sends |-> <<>>, receives |-> <<>>, visited |-> {},
                                    expanded |-> <<>>])]]

-----------------------------------------------------------------------------
(* Specification SpecChan: ExtractChannelFlow on every program of up to    *)
(* MaxChanOps channel statements, after WalkAST has made their nodes.      *)

InitChan ==
    /\ input \in ChPrograms
    /\ \E w \in {ChWalked(input, 1, [cpg |-> NewCPG, posLookup |-> <<>>])} :
          cpg = w.cpg /\ posLookup = w.posLookup
    /\ log = <<>>
    /\ pc = "chan"
    /\ vta = {} /\ pending = {} /\ stubs = {} /\ fn = <<>> /\ db = <<>>
    /\ funcLookup = <<>> /\ defLookup = <<>>

\* ExtractChannelFlow(ssaResult, fset, posLookup, cpg, prog); fn keeps the
\* walk of every MakeChan.
ExtractChannelFlow ==
    /\ pc = "chan"
    /\ cpg' = extractChannelFlow(cpg, ChAllFuncs(input), posLookup, 1, 1)
    /\ fn' = chanWalks(ChAllFuncs(input), posLookup)
    /\ pc' = "chan_done"
    /\ UNCHANGED <<log, vta, pending, stubs, input, db, defLookup, posLookup, funcLookup>>

NextChan == ExtractChannelFlow

SpecChan == InitChan /\ [][NextChan]_vars

\* The channels (named by their MakeChan) a value obtained in the given way
\* can be at run time.
ChMayBe(via) ==
    CASE via = "t2" -> {"t2"}
      [] via \in {"phi", "loop"} -> {"t1", "t2"}
      [] via = "ret_fresh" -> {"fresh.t0"}
      [] OTHER -> {"t1"}

\* The channels the site with node id can operate on, and its direction.
ChSiteChans(id) ==
    UNION {ChMayBe(input[i].via) : i \in {j \in 1..Len(input) : ChSiteID(j, input[j].dir) = id}}

ChSiteDirs(id) == {input[i].dir : i \in {j \in 1..Len(input) : ChSiteID(j, input[j].dir) = id}}

ChanFlowEdges(g) == {e \in EdgeSet(g) : e.Kind = "chan_flow"}

\* C18: every chan_flow edge goes from a send site to a receive site that
\* operate on the same channel, the one made by one MakeChan instruction:
\* some channel is one both sites can operate on.
C18_ChanFlowSameChannel ==
    pc = "chan_done" =>
        \A e \in ChanFlowEdges(cpg) :
            /\ ChSiteDirs(e.Source) = {"send"}
            /\ ChSiteDirs(e.Target) = {"recv"}
            /\ ChSiteChans(e.Source) \cap ChSiteChans(e.Target) # {}

\* The values of the program: the values the instructions define, the
\* parameters and the free variables.
ChValues(funcs) ==
    {inst.name : inst \in {x \in Range(InstrsOf(funcs, 1)) : x.name # ""}}
    \cup UNION {Range(f.Params) \cup Range(f.FreeVars) : f \in Range(funcs)}

\* The values chanFollowRefs follows from val when it goes through the
\* referrer inst.
ChFollowed(funcs, val, inst) ==
    LET viaArgs(targets) ==
            {targets[i] : i \in {j \in 1..Len(inst.Ops) :
                                    inst.Ops[j] = val /\ j <= Len(targets)}}
        callee == IF inst.Aux # "" /\ inst.op \in {"Call", "Go", "Defer", "MakeClosure"}
                  THEN SsaFuncNamed(funcs, inst.Aux)
                  ELSE ChanFunc("", <<>>, <<>>, <<>>)
    IN  CASE inst.op = "Send" -> {}
          [] inst.op = "UnOp" -> IF inst.Aux = "MUL" THEN {inst.name} ELSE {}
          [] inst.op = "Call" -> viaArgs(callee.Params) \cup {inst.name}
          [] inst.op \in {"Go", "Defer"} -> viaArgs(callee.Params)
          [] inst.op = "MakeClosure" -> viaArgs(callee.FreeVars)
          [] inst.op = "Store" -> IF inst.Ops[2] = val THEN {inst.Ops[1]} ELSE {}
          [] OTHER -> IF inst.name # "" THEN {inst.name} ELSE {}

\* The value graph has a cycle through val: val is followed from a value
\* that is followed, in one or more steps, from val.
RECURSIVE ChFollowClosure(_, _)
ChFollowClosure(funcs, vals) ==
    LET next == vals \cup UNION {ChFollowed(funcs, v, inst) :
                                    <<v, inst>> \in {p \in vals \X Range(InstrsOf(funcs, 1)) :
                                                        p[1] \in Range(p[2].Ops)}}
    IN  IF next = vals THEN vals ELSE ChFollowClosure(funcs, next)

ChOnCycle(funcs, val) ==
    val \in ChFollowClosure(funcs,
                UNION {ChFollowed(funcs, val, inst) : inst \in Range(Referrers(funcs, val))})

\* C29: chanFollowRefs returns for every MakeChan of the program, referrer
\* cycles included, and within the walk of one MakeChan no value has its
\* referrers gone through more than once: the expanded values are the
\* visited ones, each once, and all of them values of the program.
C29_FollowRefsOncePerValue ==
    pc = "chan_done" =>
        /\ Len(fn) = Cardinality({inst \in Range(InstrsOf(ChAllFuncs(input), 1)) :
                                     inst.op = "MakeChan"})
        /\ \A i \in DOMAIN fn :
              /\ \A a, b \in DOMAIN fn[i].st.expanded :
                    a # b => fn[i].st.expanded[a] # fn[i].st.expanded[b]
              /\ Range(fn[i].st.expanded) = fn[i].st.visited
              /\ fn[i].st.visited \subseteq ChValues(ChAllFuncs(input))
              /\ fn[i].chan \in fn[i].st.visited

\* The walk of t1 went through a phi loop, a store/load round trip or a
\* self-recursive function, and came back to a value on the cycle.
C29_Witness ==
    /\ pc = "chan_done"
    /\ {input[i].via : i \in DOMAIN input} \subseteq {"loop", "roundtrip", "rec"}
    /\ Len(input) = MaxChanOps
    /\ \E i \in DOMAIN fn :
          /\ fn[i].chan = "t1"
          /\ \E v \in fn[i].st.visited : ChOnCycle(ChAllFuncs(input), v)
          /\ Len(fn[i].st.sends) + Len(fn[i].st.receives) >= MaxChanOps

-----------------------------------------------------------------------------
(* Specification SpecModules: RelPkg and RelFile on module sets.  main()   *)
(* lists the primary module first and the extras of --modules after it in  *)
(* the order given.  The extras at hand: a module nested in the primary, a *)
(* library, and a fork of that library checked out in another directory    *)
(* under the same module path.                                             *)

MaxExtras == 2

MaxQueries == 1

ModPrimary == [ModPath |-> "ex.com/m", Dir |-> "/w/m", Prefix |-> ""]

ModExtras ==
    { [ModPath |-> "ex.com/m/sub", Dir |-> "/w/m/sub", Prefix |-> "sub"],
      [ModPath |-> "ex.com/lib", Dir |-> "/w/lib", Prefix |-> "lib"],
      [ModPath |-> "ex.com/lib", Dir |-> "/w/fork", Prefix |-> "fork"] }

\* NewModuleSet(primary, extras) for every list of distinct extras.
ModLists ==
    {<<ModPrimary>> \o ex : ex \in
        {s \in UNION {[1..n -> ModExtras] : n \in 0..MaxExtras} :
            \A i, j \in DOMAIN s : i # j => s[i] # s[j]}}

ModPkgPaths ==
    {"ex.com/m", "ex.com/m/a", "ex.com/m/sub", "ex.com/m/sub/x", "ex.com/lib",
     "ex.com/lib/y", "ex.com/mx", "ex.org/other"}

ModFilePaths ==
    {"/w/m/a.go", "/w/m/a/b.go", "/w/m/sub/x.go", "/w/lib/y.go", "/w/fork/y.go",
     "/w/mx/a.go", "/v/z.go"}

InitModules ==
    /\ input \in ModLists
    /\ cpg = NewCPG
    /\ log = <<>>
    /\ pc = "modules"
    /\ vta = {} /\ pending = {} /\ stubs = {} /\ fn = <<>> /\ db = <<>>
    /\ posLookup = <<>> /\ funcLookup = <<>> /\ defLookup = <<>>

\* modSet.RelPkg(fullPath); log keeps the call and its result.
DoRelPkg(fullPath) ==
    /\ pc = "modules"
    /\ Len(log) < MaxQueries
    /\ log' = Append(log, [op |-> "RelPkg", arg |-> fullPath, res |-> RelPkgOf(input, fullPath)])
    /\ UNCHANGED <<cpg, pc, vta, pending, stubs, fn, input, db, defLookup, posLookup, funcLookup>>

\* modSet.RelFile(absPath)
DoRelFile(absPath) ==
    /\ pc = "modules"
    /\ Len(log) < MaxQueries
    /\ log' = Append(log, [op |-> "RelFile", arg |-> absPath, res |-> RelFileOf(input, absPath)])
    /\ UNCHANGED <<cpg, pc, vta, pending, stubs, fn, input, db, defLookup, posLookup, funcLookup>>

NextModules ==
    \/ \E p \in ModPkgPaths : DoRelPkg(p)
    \/ \E p \in ModFilePaths : DoRelFile(p)

SpecModules == InitModules /\ [][NextModules]_vars

\* The module lists that list the modules of ms in another order.
ModReorderings(ms) == {ms2 \in ModLists : Range(ms2) = Range(ms)}

\* The modules of ms whose module path, respectively directory, is the
\* path or lies above it, and the longest of them.
ModsMatchingPkg(ms, p) == {m \in Range(ms) : p = m.ModPath \/ HasPrefix(p, m.ModPath \o "/")}

ModsMatchingFile(ms, p) == {m \in Range(ms) : p = m.Dir \/ HasPrefix(p, m.Dir \o "/")}

LongestBy(mods, len(_)) == {m \in mods : \A m2 \in mods : len(m2) <= len(m)}

ModPathLen(m) == Len(m.ModPath)

ModDirLen(m) == Len(m.Dir)

\* The relative path below a module, unprefixed for the primary module and
\* prefixed by the module's prefix for an extra one.
ModRel(m, p, rootLen) ==
    IF m.Prefix = "" THEN SubSeq(p, rootLen + 2, Len(p))
    ELSE m.Prefix \o "/" \o SubSeq(p, rootLen + 2, Len(p))

\* C20: RelPkg and RelFile classify a path by the module with the longest
\* matching module path, respectively directory, whatever the order in
\* which the modules are listed; the result for a path below that module's
\* root is the relative path, unprefixed for the primary module and
\* prefixed by its prefix for an extra module.
C20_LongestMatchAnyOrder ==
    \A i \in 1..Len(log) :
        /\ log[i].op = "RelPkg" =>
              /\ \A ms2 \in ModReorderings(input) : RelPkgOf(ms2, log[i].arg) = log[i].res
              /\ \A m \in LongestBy(ModsMatchingPkg(input, log[i].arg), ModPathLen) :
                    log[i].arg # m.ModPath => log[i].res = ModRel(m, log[i].arg, Len(m.ModPath))
        /\ log[i].op = "RelFile" =>
              /\ \A ms2 \in ModReorderings(input) : RelFileOf(ms2, log[i].arg) = log[i].res
              /\ \A m \in LongestBy(ModsMatchingFile(input, log[i].arg), ModDirLen) :
                    log[i].arg # m.Dir => log[i].res = ModRel(m, log[i].arg, Len(m.Dir))

-----------------------------------------------------------------------------
(* Specification SpecRec: ComputeFanInOut on the store of a package main   *)
(* whose functions A, B and C call each other in any way: the store after  *)
(* BuildCallGraph and ComputeMetrics holds their function nodes, a Metrics *)
(* entry for each and one call edge per (caller, callee) pair with a call. *)

RecFuncs == <<"A", "B", "C">>

RecID(k) == FuncID("main", "", RecFuncs[k], "a.go", 2 + k, 1)

\* The (caller, callee) pairs in the order their call edges are added.
RecPairs == <<<<1, 1>>, <<1, 2>>, <<1, 3>>, <<2, 1>>, <<2, 2>>, <<2, 3>>, <<3, 1>>, <<3, 2>>, <<3, 3>>>>

RECURSIVE RecNodes(_, _)
RecNodes(g, k) ==
    IF k > Len(RecFuncs) THEN g
    ELSE RecNodes([AddNode(g, Node(RecID(k), "function", RecFuncs[k], 2 + k, 1, NoProps))
                     EXCEPT !.Metrics = MapPut(@, RecID(k), MetricsRec(RecID(k), 1, 1, 0, 0, 0))],
                  k + 1)

RECURSIVE RecCalls(_, _, _)
RecCalls(g, calls, k) ==
    IF k > Len(RecPairs) THEN g
    ELSE RecCalls(IF RecPairs[k] \in calls
                  THEN AddEdge(g, Edge(RecID(RecPairs[k][1]), RecID(RecPairs[k][2]), "call", NoProps))
                  ELSE g,
                  calls, k + 1)

InitRec ==
    /\ input \in SUBSET Range(RecPairs)
    /\ cpg = RecCalls(RecNodes(NewCPG, 1), input, 1)
    /\ log = <<>>
    /\ pc = "metrics"
    /\ vta = {} /\ pending = {} /\ stubs = {} /\ fn = <<>> /\ db = <<>>
    /\ posLookup = <<>> /\ funcLookup = <<>> /\ defLookup = <<>>

NextRec == RunComputeFanInOut

SpecRec == InitRec /\ [][NextRec]_vars

\* The ids a chain of one or more call edges leads to from the ids of set s.
RECURSIVE CallReach(_, _)
CallReach(g, s) ==
    LET more == {e.Target : e \in {x \in EdgeSet(g) : x.Kind = "call" /\ x.Source \in s}}
    IN IF more \subseteq s THEN s ELSE CallReach(g, s \cup more)

OnCallCycle(g, id) ==
    id \in CallReach(g, {e.Target : e \in {x \in EdgeSet(g) : x.Kind = "call" /\ x.Source = id}})

\* C28: after ComputeFanInOut every function node that lies on a cycle of
\* call edges, of length 1 (direct recursion) or more (mutual recursion),
\* has the property recursive = true.
C28_RecursiveOnCycle ==
    pc = "fan" =>
        \A n \in NodeSet(cpg) :
            (n.Kind = "function" /\ OnCallCycle(cpg, n.ID))
               => (HasProp(n.Properties, "recursive") /\ PropOf(n.Properties, "recursive") = TRUE)

-----------------------------------------------------------------------------
(* createSessionTypeCorrections: the statements that fill                  *)
(* comm_subtype_check, comm_dependency_cycles and comm_association, as     *)
(* functions of the tables they read.  The tables at hand: the protocols   *)
(* adapter_query and adapter_query_range, each with the participants       *)
(* adapter (client) and prometheus (server); comm_endpoints given by the   *)
(* number of endpoints found for the adapter side of each protocol (the    *)
(* prometheus side has one); comm_causality with up to MaxCausality rows   *)
(* over three endpoints.  Endpoint ids are INTEGER columns.                *)

MaxCausality == 3

SessEndpoints == 1..3

SessKinds == {"IO", "OO"}

SessProtos == {"adapter_query", "adapter_query_range"}

SessCausalityRows ==
    {r \in [source_endpoint : SessEndpoints, target_endpoint : SessEndpoints,
            kind : SessKinds, protocol_id : SessProtos] :
        r.source_endpoint # r.target_endpoint}

\* comm_participants
SessParticipants ==
    {[protocol_id |-> p, component |-> c[1], role |-> c[2]] :
        p \in SessProtos, c \in {<<"adapter", "client">>, <<"prometheus", "server">>}}

\* The components the subtype check takes as external.
SessExternal ==
    {"target", "remote_storage", "alertmanager", "kubernetes", "provider",
     "prometheus_global", "external_service", "external_client"}

\* The AUTOINCREMENT id of a comm_causality row: rows are numbered in the
\* order of their insertion, here the order of (source, target, kind,
\* protocol).
SessKey(r) ==
    (((r.source_endpoint * 4 + r.target_endpoint) * 2
        + (IF r.kind = "IO" THEN 0 ELSE 1)) * 2)
        + (IF r.protocol_id = "adapter_query" THEN 0 ELSE 1)

SessWithIDs(rows) ==
    {[id |-> Cardinality({q \in rows : SessKey(q) <= SessKey(r)}),
      source_endpoint |-> r.source_endpoint, target_endpoint |-> r.target_endpoint,
      kind |-> r.kind, protocol_id |-> r.protocol_id] : r \in rows}

\* x LIKE '%' || pat || '%' on lower-case ASCII: pat occurs in x, an
\* underscore of pat standing for any one character.
LikeAt(x, pat, off) ==
    \A i \in 1..Len(pat) :
        SubSeq(pat, i, i) = "_" \/ SubSeq(pat, i, i) = SubSeq(x, off + i, off + i)

LikeContains(x, pat) ==
    \E off \in 0..(Len(x) - Len(pat)) : Len(x) >= Len(pat) /\ LikeAt(x, pat, off)

\* INSERT INTO comm_subtype_check: one row per participant, is_conforming
\* from the component and its endpoint count (cnt of the LEFT JOIN).
subtypeCheck(parts, cnt) ==
    {[protocol_id |-> p.protocol_id, component |-> p.component,
      is_conforming |->
          IF p.component \in SessExternal THEN 1
          ELSE IF cnt[p.protocol_id][p.component] >= 1 THEN 1
          ELSE 0] : p \in parts}

\* Detect 2-cycles.  A result row of a join is told apart by the ids of
\* the comm_causality rows it joins (rows); cycle_path is the list of
\* endpoints joined by arrows.
twoCycles(caus) ==
    {[rows |-> <<j[1].id, j[2].id>>,
      cycle_path |-> <<j[1].source_endpoint, j[1].target_endpoint, j[2].target_endpoint>>,
      cycle_length |-> 2,
      involved_protocols |-> j[1].protocol_id \o ", " \o j[2].protocol_id,
      severity |-> IF j[1].kind = "IO" /\ j[2].kind = "IO" THEN "deadlock_risk"
                   ELSE IF j[1].kind = "II" /\ j[2].kind = "II" THEN "deadlock_risk"
                   ELSE "benign"] :
        j \in {c \in caus \X caus :
                 /\ c[1].target_endpoint = c[2].source_endpoint
                 /\ c[2].target_endpoint = c[1].source_endpoint
                 /\ c[1].id < c[2].id}}

\* Detect 3-cycles: the sources of the three joined rows in ascending order.
threeCycles(caus) ==
    {[rows |-> <<j[1].id, j[2].id, j[3].id>>,
      cycle_path |-> <<j[1].source_endpoint, j[2].source_endpoint, j[3].source_endpoint,
                       j[1].source_endpoint>>,
      cycle_length |-> 3,
      involved_protocols |->
          j[1].protocol_id \o ", " \o j[2].protocol_id \o ", " \o j[3].protocol_id,
      severity |-> "deadlock_risk"] :
        j \in {c \in caus \X caus \X caus :
                 /\ c[1].target_endpoint = c[2].source_endpoint
                 /\ c[2].target_endpoint = c[3].source_endpoint
                 /\ c[3].target_endpoint = c[1].source_endpoint
                 /\ c[1].source_endpoint < c[2].source_endpoint
                 /\ c[2].source_endpoint < c[3].source_endpoint}}

\* INSERT INTO comm_association: per protocol with participants, the count
\* of participants without a conforming check row and the groups of
\* deadlock and deadlock_risk cycles (by involved_protocols) the LIKE of
\* the join selects.
association(protos, parts, checks, cycles) ==
    {[protocol_id |-> p,
      all_subtype_conforming |->
          IF \A q \in {x \in parts : x.protocol_id = p} :
                \E sc \in checks : sc.protocol_id = p /\ sc.component = q.component
                                   /\ sc.is_conforming = 1
          THEN 1 ELSE 0,
      acyclic_dependencies |->
          IF \E cy \in {c \in cycles : c.severity \in {"deadlock", "deadlock_risk"}} :
                LikeContains(cy.involved_protocols, p)
          THEN 0 ELSE 1,
      is_associated |->
          IF /\ \A q \in {x \in parts : x.protocol_id = p} :
                   \E sc \in checks : sc.protocol_id = p /\ sc.component = q.component
                                      /\ sc.is_conforming = 1
             /\ ~\E cy \in {c \in cycles : c.severity \in {"deadlock", "deadlock_risk"}} :
                   LikeContains(cy.involved_protocols, p)
          THEN 1 ELSE 0] :
        p \in {x \in protos : \E q \in parts : q.protocol_id = x}}

-----------------------------------------------------------------------------
(* Specification SpecSession: createSessionTypeCorrections on every        *)
(* content of comm_causality and comm_endpoints within the bounds.         *)

InitSession ==
    /\ \E rows \in SUBSET SessCausalityRows, n \in [SessProtos -> 0..1] :
          /\ Cardinality(rows) <= MaxCausality
          /\ input = [adapterEndpoints |-> n]
          /\ db = [comm_causality |-> SessWithIDs(rows), comm_subtype_check |-> {},
                   comm_dependency_cycles |-> {}, comm_association |-> {}]
    /\ cpg = NewCPG
    /\ log = <<>>
    /\ pc = "session"
    /\ vta = {} /\ pending = {} /\ stubs = {} /\ fn = <<>>
    /\ posLookup = <<>> /\ funcLookup = <<>> /\ defLookup = <<>>

\* createSessionTypeCorrections(conn, prog)
CreateSessionTypeCorrections ==
    /\ pc = "session"
    /\ \E checks \in {subtypeCheck(SessParticipants,
                          [p \in SessProtos |->
                              [c \in {"adapter", "prometheus"} |->
                                  IF c = "adapter" THEN input.adapterEndpoints[p] ELSE 1]])},
          cycles \in {twoCycles(db.comm_causality) \cup threeCycles(db.comm_causality)} :
          db' = [db EXCEPT !.comm_subtype_check = checks,
                           !.comm_dependency_cycles = cycles,
                           !.comm_association =
                               association(SessProtos, SessParticipants, checks, cycles)]
    /\ pc' = "session_done"
    /\ UNCHANGED <<cpg, log, vta, pending, stubs, fn, input, defLookup, posLookup, funcLookup>>

NextSession == CreateSessionTypeCorrections

SpecSession == InitSession /\ [][NextSession]_vars

\* The comm_causality row that goes from endpoint a to endpoint b.
CausalEdge(a, b) ==
    \E c \in db.comm_causality : c.source_endpoint = a /\ c.target_endpoint = b

\* The endpoints of a recorded cycle.
CycleEndpoints(cy) == Range(cy.cycle_path)

CycleProtocols(cy) ==
    {c.protocol_id : c \in {x \in db.comm_causality : x.id \in Range(cy.rows)}}

-----------------------------------------------------------------------------
(* The HTTP server (package server): the handlers of /api/search,           *)
(* /api/subgraph, /api/package/functions, /api/source and /api/slice over a *)
(* database the handlers only read.  A behaviour serves one request; the    *)
(* handlers keep no state between requests.                                 *)

\* The number of dfg / param_in / param_out edges of the served database.
MaxSliceEdges == 3

maxSubgraphNodes == 200

SvHandler == "main::Handler@main.go:10:1"
SvRun == "main::Run@main.go:5:1"
SvParam == "main::Handler::w@main.go:10:14"
SvLog == "util::Log@util.go:3:1"

\* The files of the served database in the order SQLite's BINARY collation
\* gives them.
SvFileOrder == <<"main.go", "util.go">>

SvFileRank(f) == CHOOSE i \in 1..Len(SvFileOrder) : SvFileOrder[i] = f

\* The names of the served database in BINARY collation order.
SvNameOrder == <<"Handler", "Log", "Run", "w">>

SvNameRank(n) == CHOOSE i \in 1..Len(SvNameOrder) : SvNameOrder[i] = n

SvNodes ==
    {[id |-> SvHandler, kind |-> "function", name |-> "Handler", file |-> "main.go",
      line |-> 10, package |-> "main"],
     [id |-> SvRun, kind |-> "function", name |-> "Run", file |-> "main.go",
      line |-> 5, package |-> "main"],
     [id |-> SvParam, kind |-> "parameter", name |-> "w", file |-> "main.go",
      line |-> 10, package |-> "main"],
     [id |-> SvLog, kind |-> "function", name |-> "Log", file |-> "util.go",
      line |-> 3, package |-> "util"]}

SvCallEdges ==
    {[source |-> SvRun, target |-> SvHandler, kind |-> "call"],
     [source |-> SvHandler, target |-> SvLog, kind |-> "call"]}

SvFlowEdges ==
    {[source |-> SvRun, target |-> SvHandler, kind |-> "dfg"],
     [source |-> SvHandler, target |-> SvRun, kind |-> "param_out"],
     [source |-> SvParam, target |-> SvHandler, kind |-> "param_in"],
     [source |-> SvHandler, target |-> SvLog, kind |-> "dfg"],
     [source |-> SvLog, target |-> SvRun, kind |-> "dfg"],
     [source |-> SvParam, target |-> SvLog, kind |-> "param_out"]}

SvSources ==
    {[file |-> "main.go", content |-> "package main", package |-> "main"],
     [file |-> "util.go", content |-> "package util", package |-> "util"]}

\* r.URL.Query().Get(key): the first value of the key, "" when the key is
\* absent.  A query is a set of <<key, value>> pairs, one per key at most.
QueryGet(query, key) ==
    IF \E p \in query : p[1] = key
    THEN (CHOOSE p \in query : p[1] = key)[2]
    ELSE ""

DigitOf(c) ==
    CASE c = "0" -> 0 [] c = "1" -> 1 [] c = "2" -> 2 [] c = "3" -> 3 [] c = "4" -> 4
      [] c = "5" -> 5 [] c = "6" -> 6 [] c = "7" -> 7 [] c = "8" -> 8 [] c = "9" -> 9
      [] OTHER -> -1

RECURSIVE AtoiDigits(_, _, _)
AtoiDigits(s, i, acc) ==
    IF i > Len(s) THEN [val |-> acc, err |-> FALSE]
    ELSE IF DigitOf(SubSeq(s, i, i)) < 0 THEN [val |-> 0, err |-> TRUE]
    ELSE AtoiDigits(s, i + 1, acc * 10 + DigitOf(SubSeq(s, i, i)))

\* strconv.Atoi: an optional sign and decimal digits; 0 and an error otherwise.
Atoi(s) ==
    IF s = "" THEN [val |-> 0, err |-> TRUE]
    ELSE IF SubSeq(s, 1, 1) \in {"-", "+"}
         THEN IF Len(s) = 1 THEN [val |-> 0, err |-> TRUE]
              ELSE LET r == AtoiDigits(s, 2, 0)
                   IN  IF SubSeq(s, 1, 1) = "-" THEN [r EXCEPT !.val = 0 - r.val] ELSE r
         ELSE AtoiDigits(s, 1, 0)

\* The orders a SELECT ... ORDER BY may return the rows in: every arrangement
\* of the rows that is non-decreasing in the sort key.
SvOrderings(rows, Key(_)) ==
    {s \in [1..Cardinality(rows) -> rows] :
        /\ \A i, j \in 1..Cardinality(rows) : i # j => s[i] # s[j]
        /\ \A i \in 1..(Cardinality(rows) - 1) : Key(s[i]) <= Key(s[i + 1])}

\* LIMIT n
SvLimit(s, n) == IF Len(s) <= n THEN s ELSE SubSeq(s, 1, n)

SvResponse(endpoint, query, status, queries, nodes, edges) ==
    [endpoint |-> endpoint, query |-> query, status |-> status, queries |-> queries,
     nodes |-> nodes, edges |-> edges]

\* DB.Search(pattern, limit): the answers of querySymbolSearch.
Search(d, pattern, limit) ==
    LET lim == IF limit <= 0 \/ limit > 100 THEN 50 ELSE limit
        rows == {n \in d.nodes : n.kind = "function" /\ LikeContains(n.name, pattern)}
    IN  {SvLimit(s, lim) : s \in SvOrderings(rows, LAMBDA n : SvNameRank(n.name))}

handleSearchNoCheck(d, query, failAt) ==
    IF failAt = 1 THEN {SvResponse("/api/search", query, 500, 1, <<>>, {})}
    ELSE {SvResponse("/api/search", query, 200, 1, [i \in DOMAIN s |-> s[i].id], {}) :
             s \in Search(d, QueryGet(query, "q"), Atoi(QueryGet(query, "limit")).val)}

\* App.handleSearch.  failAt is the database query that fails (0: none).
handleSearch(d, query, failAt) ==
    IF QueryGet(query, "q") = ""
    THEN {SvResponse("/api/search", query, 400, 0, <<>>, {})}
    ELSE IF failAt = 1 THEN {SvResponse("/api/search", query, 500, 1, <<>>, {})}
    ELSE {SvResponse("/api/search", query, 200, 1, [i \in DOMAIN s |-> s[i].id], {}) :
             s \in Search(d, QueryGet(query, "q"), Atoi(QueryGet(query, "limit")).val)}

\* queryFunctionNeighborhood: the callers, then the callees, by name.
SvNeighborhood(d, nodeID) ==
    LET callers == {[dir |-> 1, n |-> n] : n \in
                       {n \in d.nodes : n.kind = "function" /\
                           [source |-> n.id, target |-> nodeID, kind |-> "call"] \in d.edges}}
        callees == {[dir |-> 2, n |-> n] : n \in
                       {n \in d.nodes : n.kind = "function" /\
                           [source |-> nodeID, target |-> n.id, kind |-> "call"] \in d.edges}}
    IN  SvOrderings(callers \cup callees,
                    LAMBDA r : r.dir * (Len(SvNameOrder) + 1) + SvNameRank(r.n.name))

\* DB.Subgraph(nodeID, limit).  With no neighbour the placeholder list is
\* empty and placeholders[:len(placeholders)-1] panics.
Subgraph(d, nodeID, limit, failAt) ==
    LET lim == IF limit <= 0 \/ limit > maxSubgraphNodes THEN maxSubgraphNodes ELSE limit
    IN  IF failAt = 1 THEN {[status |-> 500, queries |-> 1, nodes |-> <<>>, edges |-> {}]}
        ELSE IF failAt = 2 THEN {[status |-> 500, queries |-> 2, nodes |-> <<>>, edges |-> {}]}
        ELSE {LET ns == SvLimit(s, lim)
                  ids == {ns[i].n.id : i \in DOMAIN ns}
                  center == IF \E n \in d.nodes : n.id = nodeID THEN <<nodeID>> ELSE <<>>
              IN  IF ids = {}
                  THEN [status |-> "panic", queries |-> 2, nodes |-> <<>>, edges |-> {}]
                  ELSE IF failAt = 3
                  THEN [status |-> 500, queries |-> 3, nodes |-> <<>>, edges |-> {}]
                  ELSE [status |-> 200, queries |-> 3,
                        nodes |-> center \o [i \in DOMAIN ns |-> ns[i].n.id],
                        edges |-> {e \in d.edges : e.kind = "call" /\ e.source \in ids
                                                   /\ e.target \in ids}]
              : s \in SvNeighborhood(d, nodeID)}

\* App.handleSubgraph
handleSubgraph(d, query, failAt) ==
    IF QueryGet(query, "node_id") = ""
    THEN {SvResponse("/api/subgraph", query, 400, 0, <<>>, {})}
    ELSE {SvResponse("/api/subgraph", query, r.status, r.queries, r.nodes, r.edges) :
             r \in Subgraph(d, QueryGet(query, "node_id"),
                            Atoi(QueryGet(query, "limit")).val, failAt)}

\* App.handlePackageFunctions over DB.PackageFunctions
handlePackageFunctions(d, query, failAt) ==
    IF QueryGet(query, "package") = ""
    THEN {SvResponse("/api/package/functions", query, 400, 0, <<>>, {})}
    ELSE IF failAt = 1
    THEN {SvResponse("/api/package/functions", query, 500, 1, <<>>, {})}
    ELSE {SvResponse("/api/package/functions", query, 200, 1,
                     [i \in DOMAIN s |-> s[i].id], {}) :
             s \in SvOrderings({n \in d.nodes : n.kind = "function" /\
                                   (n.package = QueryGet(query, "package") \/
                                    LikeContains(n.package, QueryGet(query, "package")))},
                               LAMBDA n : SvNameRank(n.name))}

\* App.handleSource over DB.Source: 404 on sql.ErrNoRows.
handleSource(d, query, failAt) ==
    IF QueryGet(query, "file") = ""
    THEN {SvResponse("/api/source", query, 400, 0, <<>>, {})}
    ELSE IF failAt = 1 THEN {SvResponse("/api/source", query, 500, 1, <<>>, {})}
    ELSE IF \E s \in d.sources : s.file = QueryGet(query, "file")
    THEN {SvResponse("/api/source", query, 200, 1, <<QueryGet(query, "file")>>, {})}
    ELSE {SvResponse("/api/source", query, 404, 1, <<>>, {})}

\* The rows of the recursive common table expression slice(id, depth) of
\* queryBackwardSlice / queryForwardSlice: UNION keeps a row once.
RECURSIVE sliceRows(_, _, _, _)
sliceRows(d, forward, rows, frontier) ==
    LET kinds == IF forward THEN {"dfg", "param_out"} ELSE {"dfg", "param_in"}
        joined == UNION {{<<IF forward THEN e.target ELSE e.source, s[2] + 1>> :
                             e \in {e \in d.edges :
                                       /\ e.kind \in kinds
                                       /\ (IF forward THEN e.source ELSE e.target) = s[1]}} :
                         s \in {s \in frontier : s[2] < 20}}
        new == joined \ rows
    IN  IF new = {} THEN rows ELSE sliceRows(d, forward, rows \cup new, new)

\* queryBackwardSlice / queryForwardSlice: the nodes of the slice rows,
\* ORDER BY n.file, n.line LIMIT ?
querySlice(d, forward, nodeID, limit) ==
    LET rows == sliceRows(d, forward, {<<nodeID, 0>>}, {<<nodeID, 0>>})
        ns == {n \in d.nodes : \E r \in rows : r[1] = n.id}
    IN  {SvLimit(s, limit) :
            s \in SvOrderings(ns, LAMBDA n : SvFileRank(n.file) * 1000 + n.line)}

\* DB.Slice(nodeID, direction, limit)
Slice(d, nodeID, direction, limit, failAt) ==
    LET lim == IF limit <= 0 \/ limit > maxSubgraphNodes THEN maxSubgraphNodes ELSE limit
    IN  IF failAt = 1 THEN {[status |-> 500, queries |-> 1, nodes |-> <<>>, edges |-> {}]}
        ELSE {LET ids == {s[i].id : i \in DOMAIN s}
              IN  IF ids = {}
                  THEN [status |-> 200, queries |-> 1, nodes |-> <<>>, edges |-> {}]
                  ELSE IF failAt = 2
                  THEN [status |-> 500, queries |-> 2, nodes |-> <<>>, edges |-> {}]
                  ELSE [status |-> 200, queries |-> 2,
                        nodes |-> [i \in DOMAIN s |-> s[i].id],
                        edges |-> {e \in d.edges :
                                      /\ e.kind \in {"dfg", "param_in", "param_out"}
                                      /\ e.source \in ids /\ e.target \in ids}]
              : s \in querySlice(d, direction = "forward", nodeID, lim)}

\* App.handleSlice
handleSlice(d, query, failAt) ==
    IF QueryGet(query, "node_id") = ""
    THEN {SvResponse("/api/slice", query, 400, 0, <<>>, {})}
    ELSE {SvResponse("/api/slice", query, r.status, r.queries, r.nodes, r.edges) :
             r \in Slice(d, QueryGet(query, "node_id"),
                         IF QueryGet(query, "direction") = "" THEN "backward"
                         ELSE QueryGet(query, "direction"),
                         Atoi(QueryGet(query, "limit")).val, failAt)}

\* The query strings of the requests: each key absent, empty or with a value.
SvQueries(pairs) ==
    {q \in SUBSET pairs : \A p1, p2 \in q : p1[1] = p2[1] => p1 = p2}

SvLimits == {<<"limit", v>> : v \in {"", "1", "2", "-1", "many", "300"}}

InitServer ==
    /\ \E flow \in SUBSET SvFlowEdges :
          /\ Cardinality(flow) <= MaxSliceEdges
          /\ db = [nodes |-> SvNodes, edges |-> SvCallEdges \cup flow, sources |-> SvSources]
    /\ cpg = NewCPG
    /\ log = <<>>
    /\ pc = "serve"
    /\ input = <<>>
    /\ vta = {} /\ pending = {} /\ stubs = {} /\ fn = <<>>
    /\ posLookup = <<>> /\ funcLookup = <<>> /\ defLookup = <<>>

SvServe(responses) ==
    /\ pc = "serve"
    /\ \E r \in responses : log' = <<r>>
    /\ pc' = "served"
    /\ UNCHANGED <<cpg, vta, pending, stubs, fn, input, db, defLookup, posLookup, funcLookup>>

HandleSearch ==
    \E query \in SvQueries({<<"q", v>> : v \in {"", "an", "Run", "zz"}} \cup
                           {<<"limit", v>> : v \in {"", "1", "x"}}),
       failAt \in 0..1 :
        SvServe(handleSearch(db, query, failAt))

HandleSubgraph ==
    \E query \in SvQueries({<<"node_id", v>> : v \in {"", SvHandler, SvParam, "nosuch"}} \cup
                           {<<"limit", v>> : v \in {"", "1", "x"}}),
       failAt \in 0..3 :
        SvServe(handleSubgraph(db, query, failAt))

HandlePackageFunctions ==
    \E query \in SvQueries({<<"package", v>> : v \in {"", "main", "ai", "nosuch"}}),
       failAt \in 0..1 :
        SvServe(handlePackageFunctions(db, query, failAt))

HandleSource ==
    \E query \in SvQueries({<<"file", v>> : v \in {"", "main.go", "nosuch.go"}}),
       failAt \in 0..1 :
        SvServe(handleSource(db, query, failAt))

HandleSlice ==
    \E query \in SvQueries({<<"node_id", v>> : v \in {"", SvHandler, SvRun, SvParam, SvLog,
                                                     "nosuch"}} \cup
                           {<<"direction", v>> : v \in {"", "backward", "forward", "up"}} \cup
                           SvLimits),
       failAt \in 0..2 :
        SvServe(handleSlice(db, query, failAt))

NextServer ==
    \/ HandleSearch
    \/ HandleSubgraph
    \/ HandlePackageFunctions
    \/ HandleSource
    \/ HandleSlice

SpecServer == InitServer /\ [][NextServer]_vars

\* The query parameter each endpoint requires.
SvRequired ==
    [e \in {"/api/search", "/api/subgraph", "/api/package/functions", "/api/source",
            "/api/slice"} |->
        CASE e = "/api/search" -> "q"
          [] e = "/api/subgraph" -> "node_id"
          [] e = "/api/package/functions" -> "package"
          [] e = "/api/source" -> "file"
          [] e = "/api/slice" -> "node_id"]

\* C24: a request to /api/search, /api/subgraph, /api/package/functions,
\* /api/source or /api/slice whose required query parameter (q, node_id,
\* package, file, node_id) is absent or empty is answered with status 400,
\* and no database query was issued for it.
C24_MissingParamIs400 ==
    pc = "served" =>
        \A i \in DOMAIN log :
            (\A p \in log[i].query : p[1] = SvRequired[log[i].endpoint] => p[2] = "")
                => log[i].status = 400 /\ log[i].queries = 0

C24_Witness ==
    /\ pc = "served"
    /\ log[1].endpoint = "/api/search"
    /\ <<"q", "">> \in log[1].query
    /\ <<"limit", "1">> \in log[1].query
    /\ log[1].status = 400
    /\ log[1].queries = 0

\* C25: a slice request for a node_id of the nodes table that the database
\* answers, backward or forward and whatever the limit, returns the seed
\* node among its nodes.
C25_SliceHasSeed ==
    pc = "served" =>
        \A i \in DOMAIN log :
            (/\ log[i].endpoint = "/api/slice"
             /\ log[i].status = 200
             /\ \E n \in db.nodes : n.id = QueryGet(log[i].query, "node_id"))
                => QueryGet(log[i].query, "node_id") \in Range(log[i].nodes)

-----------------------------------------------------------------------------
(* Specification SpecPdom: postDominators on one control-flow graph, one    *)
(* pass of the Cooper-Harvey-Kennedy loop per step.  The graphs are all the *)
(* functions of up to MaxBlocks blocks, blocks that the entry does not      *)
(* reach (a Recover block) included, and the loops with two ways out.       *)

\* The number of branching blocks of a loop with two ways out.
MaxLoopBlocks == 2

\* for { if a { return }; if b { panic(..) }; ... }: the entry 0 jumps to
\* the loop head 3, blocks 1 and 2 leave the function, and each of the k
\* loop blocks branches to one of them and to the next loop block, in
\* either order of Succs.
PdomLoopFuncs ==
    UNION {{[i \in 1..(k + 3) |->
                IF i = 1 THEN <<3>>
                ELSE IF i \in {2, 3} THEN <<>>
                ELSE LET next == IF i = k + 3 THEN 3 ELSE i
                     IN  IF flip[i - 3] THEN <<out[i - 3], next>> ELSE <<next, out[i - 3]>>] :
               out \in [1..k -> {1, 2}], flip \in [1..k -> BOOLEAN]} :
           k \in 1..MaxLoopBlocks}

PdomFuncs == (UNION {[1..n -> SuccsOf(n)] : n \in 1..MaxBlocks}) \cup PdomLoopFuncs

InitPdom ==
    /\ fn \in PdomFuncs
    /\ input = [idom |-> <<>>, prev |-> <<>>, result |-> <<>>]
    /\ pc = "pdom"
    /\ cpg = NewCPG
    /\ log = <<>>
    /\ vta = {} /\ pending = {} /\ stubs = {} /\ db = <<>>
    /\ defLookup = <<>> /\ posLookup = <<>> /\ funcLookup = <<>>

\* The exits, the early return without exit, and idom before the first pass.
\* input.prev keeps the idom the last pass started from.
PdomStart ==
    /\ pc = "pdom"
    /\ IF Len(exitsFrom(fn, 0)) = 0
       THEN /\ input' = [input EXCEPT !.result = [i \in 0..(Len(fn) - 1) |-> -1]]
            /\ pc' = "pdom_done"
       ELSE /\ input' = [input EXCEPT !.idom = pdIdom0(fn)]
            /\ pc' = "pdom_pass"
    /\ UNCHANGED <<cpg, log, vta, pending, stubs, fn, db, defLookup, posLookup, funcLookup>>

\* One pass of for changed { ... } over rpo.
PdomPass ==
    /\ pc = "pdom_pass"
    /\ \E rpo \in {reversePostorder(pdRevAdj(fn), Len(fn))} :
       \E st \in {chkPass([idom |-> input.idom, changed |-> FALSE], rpo,
                          pdRpoPos(fn, rpo), pdRevPreds(fn), Len(fn), 1)} :
          /\ input' = [input EXCEPT !.idom = st.idom, !.prev = input.idom]
          /\ pc' = IF \E x \in DOMAIN st.idom : st.idom[x] = ChkPanic THEN "pdom_panic"
                   ELSE IF st.changed THEN "pdom_pass"
                   ELSE "pdom_extract"
    /\ UNCHANGED <<cpg, log, vta, pending, stubs, fn, db, defLookup, posLookup, funcLookup>>

\* The result for the real blocks.
PdomResult ==
    /\ pc = "pdom_extract"
    /\ input' = [input EXCEPT !.result = pdResult(fn, input.idom)]
    /\ pc' = "pdom_done"
    /\ UNCHANGED <<cpg, log, vta, pending, stubs, fn, db, defLookup, posLookup, funcLookup>>

NextPdom ==
    \/ PdomStart
    \/ PdomPass
    \/ PdomResult

SpecPdom == InitPdom /\ [][NextPdom]_vars

\* The successors of x in the CFG extended with the virtual exit Len(blocks).
PdSuccs(blocks, x) ==
    IF x = Len(blocks) THEN {}
    ELSE IF Len(Succs(blocks, x)) = 0 THEN {Len(blocks)}
    ELSE Range(Succs(blocks, x))

\* The nodes the extended CFG reaches from todo without entering removed.
RECURSIVE PdReach(_, _, _, _)
PdReach(blocks, seen, todo, removed) ==
    IF todo \ removed \subseteq seen THEN seen
    ELSE PdReach(blocks, seen \cup (todo \ removed),
                 UNION {PdSuccs(blocks, x) : x \in (todo \ removed) \ seen}, removed)

ReachesExit(blocks, b) == Len(blocks) \in PdReach(blocks, {}, {b}, {})

\* d strictly post-dominates b: every path from b to the virtual exit
\* passes d, and d is not b.
StrictPostDom(blocks, b, d) == d # b /\ Len(blocks) \notin PdReach(blocks, {}, {b}, {d})

\* d is the immediate post-dominator of b: the strict post-dominator that
\* every other strict post-dominator of b post-dominates.
ImmPostDom(blocks, b, d) ==
    /\ StrictPostDom(blocks, b, d)
    /\ \A e \in 0..Len(blocks) :
          StrictPostDom(blocks, b, e) /\ e # d => StrictPostDom(blocks, d, e)

\* C26: for a CFG with an exit block, the result of postDominators is, for
\* every block that reaches an exit, its immediate post-dominator in the CFG
\* extended with the virtual exit (-1 standing for the virtual exit), and -1
\* for every block that reaches no exit.
C26_TruePostDominators ==
    (pc = "pdom_done" /\ Len(exitsFrom(fn, 0)) > 0) =>
        /\ input.result = postDominators(fn)
        /\ \A b \in 0..(Len(fn) - 1) :
              IF ReachesExit(fn, b)
              THEN ImmPostDom(fn, b, IF input.result[b] = -1 THEN Len(fn)
                                     ELSE input.result[b])
              ELSE input.result[b] = -1

\* A branch whose two ways join in a later block, and a block that loops
\* for ever.
C26_Witness ==
    /\ pc = "pdom_done"
    /\ Len(fn) = MaxBlocks
    /\ Len(exitsFrom(fn, 0)) > 0
    /\ \E b \in 0..(Len(fn) - 1) : Len(Succs(fn, b)) = 2 /\ input.result[b] # -1
    /\ \E b \in 0..(Len(fn) - 1) : ~ReachesExit(fn, b)

\* Every idom entry that is set belongs to a node of the reverse postorder
\* and leads to an entry that is set.
PdomDefined ==
    pc \in {"pdom_pass", "pdom_extract"} =>
        \A x \in 0..Len(fn) :
            input.idom[x] # -1 =>
                /\ input.idom[x] \in 0..Len(fn)
                /\ input.idom[input.idom[x]] # -1
                /\ pdRpoPos(fn, reversePostorder(pdRevAdj(fn), Len(fn)))[x] # -1

\* The distance of the idom entries from the root of the reverse postorder:
\* the position of idom[x] for an entry that is set, the number of nodes for
\* one that is not, summed over the nodes from x on.
RECURSIVE PdomMeasureFrom(_, _, _)
PdomMeasureFrom(idom, rpoPos, x) ==
    IF x > Len(fn) THEN 0
    ELSE (IF idom[x] = -1 THEN Len(fn) + 1 ELSE rpoPos[idom[x]])
         + PdomMeasureFrom(idom, rpoPos, x + 1)

PdomMeasure(idom) ==
    PdomMeasureFrom(idom, pdRpoPos(fn, reversePostorder(pdRevAdj(fn), Len(fn))), 0)

\* C30: postDominators terminates: every pass of the fixed-point loop that
\* asks for another pass has moved the idom entries strictly closer to the
\* root than the pass found them (input.prev), a natural number that cannot
\* fall for ever, so the loop stops after finitely many passes; and no
\* chkIntersect call follows an idom or reverse-postorder entry of -1.
C30_PostDominatorsTerminates ==
    /\ pc # "pdom_panic"
    /\ PdomDefined
    /\ (pc = "pdom_pass" /\ input.prev # <<>>) =>
           PdomMeasure(input.idom) < PdomMeasure(input.prev)
    /\ pc = "pdom_extract" => input.idom = input.prev

\* A second pass has changed idom entries that the first pass had set, for
\* a block with two predecessors in the reversed CFG.
C30_Witness ==
    /\ pc = "pdom_pass"
    /\ input.prev # <<>>
    /\ input.prev # pdIdom0(fn)
    /\ \E b \in 0..(Len(fn) - 1) :
          /\ Len(pdRevPreds(fn)[b]) >= 2
          /\ input.prev[b] # -1
          /\ input.idom[b] # input.prev[b]

-----------------------------------------------------------------------------
(* Specification SpecVisit: the walk of one file, package d of the primary  *)
(* module with file d/d.go                                                  *)
(*                                                                          *)
(*    3  func E() {}                                                        *)
(*    5  func D(c bool) {                                                   *)
(*   11      <statement 1> ...                                              *)
(*   20  }                                                                  *)
(*                                                                          *)
(* with up to MaxStmts statements, each one of                              *)
(*    call      E()                                                         *)
(*    selcall   c.E()                                                       *)
(*    return    return E()                                                  *)
(*    ifdefer   if c { defer E() }                                          *)
(*    deferlit  defer func() { defer E() }()                                *)
(*    ifnopos   if c { return } whose positions the file set does not       *)
(*              resolve: v.pos gives line 0 for them                        *)

VsStmtKinds == {"call", "selcall", "return", "ifdefer", "deferlit", "ifnopos"}

VsBodies == UNION {[1..n -> VsStmtKinds] : n \in 0..MaxStmts}

VsStmt(kind, line) ==
    CASE kind = "call" -> ExprStmt(DfCallE(line, 2))
      [] kind = "selcall" ->
             ExprStmt(CallExpr(SelectorExpr(Ident(<<line, 2>>, "c", "D.c", "var"),
                                            Ident(<<line, 4>>, "E", "d.E", "func"), "method"),
                               <<line, 5>>, <<>>, FALSE))
      [] kind = "return" -> ReturnStmt(<<line, 2>>, <<DfCallE(line, 9)>>)
      [] kind = "ifdefer" ->
             IfStmt(<<line, 2>>, Ident(<<line, 5>>, "c", "D.c", "var"),
                    BlockStmt(<<line, 7>>, <<DfDeferE(line, 9)>>))
      [] kind = "deferlit" -> DeferStmt(<<line, 2>>, DfLitCall(line, 8, 1))
      [] kind = "ifnopos" ->
             IfStmt(<<0, 0>>, Ident(<<line, 5>>, "c", "D.c", "var"),
                    BlockStmt(<<0, 0>>, <<ReturnStmt(<<0, 0>>, <<>>)>>))

VsFile(body) ==
    [absFile |-> "/w/m/d/d.go", readable |-> TRUE, content |-> "d.go text", endLine |-> 20,
     syntax |-> File(Ident(<<1, 9>>, "d", "", ""),
                     <<DfDeclE,
                       FuncDecl(<<5, 1>>, "", Name("D", <<5, 6>>, "d.D"), <<>>,
                                << Field(<<Name("c", <<5, 8>>, "D.c")>>, <<5, 8>>, "bool") >>,
                                <<>>,
                                BlockStmt(<<5, 16>>,
                                          [k \in 1..Len(body) |-> VsStmt(body[k], 10 + k)]),
                                20)>>)]

VsPkg == [PkgPath |-> "ex.com/m/d", Name |-> "d", Imports |-> {}]

InitVisit ==
    /\ input \in VsBodies
    /\ cpg = NewCPG
    /\ log = <<>>
    /\ pc = "visit"
    /\ vta = {} /\ pending = {} /\ stubs = {} /\ fn = <<>> /\ db = <<>>
    /\ posLookup = <<>> /\ funcLookup = <<>> /\ defLookup = <<>>

\* ast.Walk(v, file) of WalkAST for the file.  fn keeps the visitor's parent
\* stack and the record of its Visit calls.
WalkOneFile ==
    /\ pc = "visit"
    /\ \E v \in {Walk(fileVisitor(cpg, [posLookup |-> <<>>, funcLookup |-> <<>>,
                                        defLookup |-> <<>>, initIDs |-> <<>>],
                                  VsPkg, VsFile(input)),
                      VsFile(input).syntax)} :
          /\ cpg' = v.cpg
          /\ posLookup' = v.posLookup
          /\ funcLookup' = v.funcLookup
          /\ defLookup' = v.defLookup
          /\ fn' = [fileID |-> v.fileID, parentStack |-> v.parentStack, visits |-> v.visits]
    /\ pc' = "visit_done"
    /\ UNCHANGED <<log, vta, pending, stubs, input, db>>

NextVisit == WalkOneFile

SpecVisit == InitVisit /\ [][NextVisit]_vars

====
